---- MODULE Spec2Model ----
(***************************************************************************)
(* UrbanFlow engine: the multi-criteria route planner                      *)
(* (src/engine/smartroute: buildGraph, PriorityQueue, runAStar,            *)
(* calculateEdgeCost, runSmartRouteRealtime) and the load consolidation    *)
(* engine (engine/consolidation/LoadMatcher: matchLoads and its helpers).  *)
(*                                                                         *)
(* Numbers.  The source computes in IEEE doubles; the model computes in    *)
(* exact fixed point:                                                      *)
(*   - coordinates lie on one meridian (lng = 0) and a latitude is given   *)
(*     in units of 180/(pi*6371) degree, so that the haversine distance    *)
(*     of two points is exactly the absolute difference of their           *)
(*     latitudes, in km;                                                   *)
(*   - route costs and priorities are in tenths (cost * 10), congestion    *)
(*     is in tenths (0..10);                                               *)
(*   - consolidation distances are in thousandths of a km, scores in       *)
(*     thousandths, ratios in millionths.                                  *)
(***************************************************************************)
EXTENDS Integers, Sequences, FiniteSets, TLC

VARIABLES
    prog,        \* which entry point this behaviour exercises: "route" | "loads"
    callNo,      \* 1 for the first call, 2 for the repeated call on the same inputs
    firstResult, \* the value the first call returned (kept by the caller)
    \* ---- runSmartRouteRealtime / runAStar ----
    edges,       \* input: Edge[]
    start,       \* input: start node
    end,         \* input: end node
    battery,     \* input: context.battery
    graph,       \* const graph = buildGraph(edges)
    destLat,     \* destinationEdge.to_lat
    rpc,         \* position in runSmartRouteRealtime / runAStar
    mode,        \* index in Modes of the search being run
    open,        \* PriorityQueue.items of the running search
    visited,     \* visited set of the running search
    pushed,      \* history: the edges the running search called open.enqueue for, in order
    routes,      \* results of the searches finished so far (fastest, greenest, safest)
    planResult,  \* value returned by runSmartRouteRealtime
    par,         \* the locals of the three searches when they run side by side
    cost,        \* value returned by calculateEdgeCost when it is called on its own
    \* ---- matchLoads / buildBestBundleForVehicle ----
    vehicles,            \* input: ConsolidationVehicle[]
    deliveries,          \* input: ConsolidationDelivery[]
    lpc,                 \* position in matchLoads / buildBestBundleForVehicle
    openDeliveries,      \* the deliveries matchLoads keeps
    vIdx,                \* index of the vehicle vehicles.map is at
    mapped,              \* results of buildBestBundleForVehicle so far (<<>> is null)
    seedIdx,             \* index of the seed seeds.forEach is at
    currentBundle,       \* bundle grown from the current seed
    currentEval,         \* its evaluation
    expand,              \* flag of the growth loop
    bestSuggestion,      \* best suggestion of the current vehicle (<<>> is null)
    grown,               \* history: the suggestions built from the seeds of the current vehicle
    suggestions,         \* the non-null suggestions, sorted by score descending
    sIdx,                \* index of the suggestion suggestions.forEach is at
    assignedDeliveryIds, \* ids of the deliveries of the accepted suggestions
    uniqueSuggestions,   \* accepted suggestions
    loadResult           \* value returned by matchLoads

routeVars == <<edges, start, end, battery, graph, destLat, rpc, mode, open, visited,
               pushed, routes, planResult, par, cost>>
loadInputs == <<vehicles, deliveries>>
bundleVars == <<seedIdx, currentBundle, currentEval, expand, bestSuggestion, grown>>
assignVars == <<suggestions, sIdx, assignedDeliveryIds, uniqueSuggestions>>
loadVars == <<loadInputs, lpc, openDeliveries, vIdx, mapped, bundleVars, assignVars, loadResult>>
callVars == <<prog, callNo, firstResult>>
vars == <<callVars, routeVars, loadVars>>

----------------------------------------------------------------------------
(* Bounds *)
MaxEdges == 4        \* at most this many edges in the edge list
MaxVehicles == 3     \* at most this many vehicles of the pool, before the idle ones
MaxIdleVehicles == 4 \* at most this many vehicles without capacity parked nearby
MaxDeliveries == 3   \* at most this many deliveries in the delivery list

----------------------------------------------------------------------------
(* Generic helpers *)
Abs(x) == IF x < 0 THEN -x ELSE x
Min2(a, b) == IF a <= b THEN a ELSE b
Max2(a, b) == IF a >= b THEN a ELSE b
Range(s) == {s[i] : i \in DOMAIN s}

RECURSIVE SeqOfSet(_)
\* the elements of a finite set of integers, ascending
SeqOfSet(S) ==
    IF S = {} THEN <<>>
    ELSE LET m == CHOOSE x \in S : \A y \in S : x <= y
         IN <<m>> \o SeqOfSet(S \ {m})

RECURSIVE SumSeq(_)
SumSeq(s) == IF s = <<>> THEN 0 ELSE Head(s) + SumSeq(Tail(s))

----------------------------------------------------------------------------
(* Values of the locals before their first assignment *)
NoEval == [score |-> 0, savingsKm |-> 0, savingsRatio |-> 0, utilization |-> 0,
           baselineDistance |-> 0, routeDistanceKm |-> 0, durationMin |-> 0,
           routeCoordinates |-> <<>>]
LoadPending == [kind |-> "pending", clusters |-> <<>>, suggestions |-> <<>>,
                tripsAvoided |-> 0, fuelSaved |-> 0, costSaved |-> 0]

LoadLocalsFresh ==
    /\ openDeliveries = <<>>
    /\ vIdx = 0
    /\ mapped = <<>>
    /\ seedIdx = 0
    /\ currentBundle = <<>>
    /\ currentEval = NoEval
    /\ expand = FALSE
    /\ bestSuggestion = <<>>
    /\ grown = <<>>
    /\ suggestions = <<>>
    /\ sIdx = 0
    /\ assignedDeliveryIds = {}
    /\ uniqueSuggestions = <<>>
    /\ loadResult = LoadPending

\* the behaviour exercises the route planner: matchLoads is not called
LoadsIdle ==
    /\ vehicles = <<>>
    /\ deliveries = <<>>
    /\ lpc = "idle"
    /\ LoadLocalsFresh

----------------------------------------------------------------------------
(* Route planner: data *)
Nodes == {"A", "B", "C"}
Modes == <<"fastest", "greenest", "safest">>
BatteryLevels == {20, 100}

\* The edges an edge list is drawn from (Edge, Graph.ts:1-13); congestion in tenths.
EdgePool == <<
    [id |-> 1, from_node |-> "A", to_node |-> "B", distance |-> 10,   congestion |-> 0,
     aqi |-> 0, restricted |-> TRUE,  from_lat |-> 0,  to_lat |-> 12],
    [id |-> 2, from_node |-> "A", to_node |-> "C", distance |-> 6,    congestion |-> 10,
     aqi |-> 0, restricted |-> FALSE, from_lat |-> 0,  to_lat |-> 6],
    [id |-> 3, from_node |-> "C", to_node |-> "B", distance |-> 6,    congestion |-> 0,
     aqi |-> 0, restricted |-> FALSE, from_lat |-> 6,  to_lat |-> 12],
    [id |-> 4, from_node |-> "A", to_node |-> "B", distance |-> 10,   congestion |-> 0,
     aqi |-> 0, restricted |-> FALSE, from_lat |-> 0,  to_lat |-> 12],
    [id |-> 5, from_node |-> "B", to_node |-> "A", distance |-> 10,   congestion |-> 5,
     aqi |-> 3, restricted |-> FALSE, from_lat |-> 12, to_lat |-> 0],
    [id |-> 6, from_node |-> "C", to_node |-> "C", distance |-> 1,    congestion |-> 0,
     aqi |-> 0, restricted |-> FALSE, from_lat |-> 6,  to_lat |-> 6],
    [id |-> 7, from_node |-> "C", to_node |-> "B", distance |-> 6000, congestion |-> 0,
     aqi |-> 0, restricted |-> FALSE, from_lat |-> 6,  to_lat |-> 12],
    [id |-> 8, from_node |-> "A", to_node |-> "C", distance |-> 2,    congestion |-> 0,
     aqi |-> 5, restricted |-> FALSE, from_lat |-> 0,  to_lat |-> 6],
    [id |-> 9, from_node |-> "A", to_node |-> "B", distance |-> 15,   congestion |-> 0,
     aqi |-> 0, restricted |-> FALSE, from_lat |-> 0,  to_lat |-> 12],
    [id |-> 10, from_node |-> "B", to_node |-> "C", distance |-> 0,   congestion |-> 0,
     aqi |-> 0, restricted |-> FALSE, from_lat |-> 12, to_lat |-> 6]
>>

EdgeById(i) == EdgePool[i]

\* every edge list of at most MaxEdges edges of the pool, in pool order
EdgeLists ==
    {[k \in 1..Cardinality(S) |-> EdgePool[SeqOfSet(S)[k]]] :
        S \in {T \in SUBSET (1..Len(EdgePool)) : Cardinality(T) <= MaxEdges}}

NoRoute == [found |-> FALSE, path |-> <<>>]          \* null
Route(p) == [found |-> TRUE, path |-> p]             \* an Edge[] (edge ids)
NotRun == [found |-> FALSE, path |-> <<0>>]          \* search not finished yet

----------------------------------------------------------------------------
(* Graph.ts: buildGraph *)
RECURSIVE buildGraphFrom(_, _)
buildGraphFrom(es, g) ==
    IF es = <<>> THEN g
    ELSE LET e == Head(es)
             g1 == IF e.from_node \in DOMAIN g
                   THEN [g EXCEPT ![e.from_node] = Append(@, e.id)]
                   ELSE [n \in DOMAIN g \cup {e.from_node} |->
                            IF n = e.from_node THEN <<e.id>> ELSE g[n]]
         IN buildGraphFrom(Tail(es), g1)

EmptyGraph == [n \in {} |-> <<>>]
buildGraph(es) == buildGraphFrom(es, EmptyGraph)

\* graph[node] || []
Neighbors(g, n) == IF n \in DOMAIN g THEN g[n] ELSE <<>>

----------------------------------------------------------------------------
(* CostFunction.ts: calculateEdgeCost, in tenths *)
RestrictedPenalty == 10000
LowBattery == 25

\* variant for comparison: the restricted penalty is left out
calculateEdgeCostNoPenalty(edge, bat, m) ==
    LET travelTime == edge.distance * (10 + edge.congestion)
        carbon == edge.distance * 2
        pollutionExposure == edge.aqi * 10
        batteryPenalty == IF bat < LowBattery THEN edge.distance * 3 * 10 ELSE 0
    IN IF m = "fastest"
       THEN 2 * travelTime + pollutionExposure \div 2 + batteryPenalty
       ELSE IF m = "greenest"
       THEN 2 * carbon + pollutionExposure + batteryPenalty
       ELSE 2 * pollutionExposure + travelTime + batteryPenalty

\* variant for comparison: the battery penalty also applies at battery 25
calculateEdgeCostBatteryAtMost(edge, bat, m) ==
    LET travelTime == edge.distance * (10 + edge.congestion)
        carbon == edge.distance * 2
        pollutionExposure == edge.aqi * 10
        batteryPenalty == IF bat <= LowBattery THEN edge.distance * 3 * 10 ELSE 0
        restrictedPenalty == IF edge.restricted THEN RestrictedPenalty * 10 ELSE 0
    IN IF m = "fastest"
       THEN 2 * travelTime + pollutionExposure \div 2 + batteryPenalty + restrictedPenalty
       ELSE IF m = "greenest"
       THEN 2 * carbon + pollutionExposure + batteryPenalty + restrictedPenalty
       ELSE 2 * pollutionExposure + travelTime + batteryPenalty + restrictedPenalty

\* variant for comparison: a low battery is credited instead of charged
calculateEdgeCostBatteryCredit(edge, bat, m) ==
    LET travelTime == edge.distance * (10 + edge.congestion)
        carbon == edge.distance * 2
        pollutionExposure == edge.aqi * 10
        batteryPenalty == IF bat < LowBattery THEN 0 - edge.distance * 3 * 10 ELSE 0
        restrictedPenalty == IF edge.restricted THEN RestrictedPenalty * 10 ELSE 0
    IN IF m = "fastest"
       THEN 2 * travelTime + pollutionExposure \div 2 + batteryPenalty + restrictedPenalty
       ELSE IF m = "greenest"
       THEN 2 * carbon + pollutionExposure + batteryPenalty + restrictedPenalty
       ELSE 2 * pollutionExposure + travelTime + batteryPenalty + restrictedPenalty

calculateEdgeCost(edge, bat, m) ==
    LET travelTime == edge.distance * (10 + edge.congestion)          \* tenths
        carbon == edge.distance * 2                                   \* tenths
        pollutionExposure == edge.aqi * 10                            \* tenths
        batteryPenalty == IF bat < LowBattery THEN edge.distance * 3 * 10 ELSE 0
        restrictedPenalty == IF edge.restricted THEN RestrictedPenalty * 10 ELSE 0
    IN IF m = "fastest"
       THEN 2 * travelTime + pollutionExposure \div 2 + batteryPenalty + restrictedPenalty
       ELSE IF m = "greenest"
       THEN 2 * carbon + pollutionExposure + batteryPenalty + restrictedPenalty
       ELSE 2 * pollutionExposure + travelTime + batteryPenalty + restrictedPenalty

\* variant for comparison: the straight-line distance is returned in another unit
haversineScaled(lat1, lat2) == Abs(lat2 - lat1) * 10 * 3

\* AStar: haversine on one meridian, in tenths of a km
haversine(lat1, lat2) == Abs(lat2 - lat1) * 10

----------------------------------------------------------------------------
(* PriorityQueue *)
\* The local functions below have the one-element domain {s}: they take the sequence as
\* a value, which they then inspect several times.
RECURSIVE InsertAhead(_, _)
\* variant for comparison: x goes ahead of the elements whose priority equals its own
InsertAhead(s, x) ==
    LET Insert[t \in {s}] ==
            IF t = <<>> THEN <<x>>
            ELSE IF Head(t).priority < x.priority
                 THEN <<Head(t)>> \o InsertAhead(Tail(t), x)
                 ELSE <<x>> \o t
    IN Insert[s]

RECURSIVE InsertStable(_, _)
\* x goes behind every element whose priority is <= its own
InsertStable(s, x) ==
    LET Insert[t \in {s}] ==
            IF t = <<>> THEN <<x>>
            ELSE IF Head(t).priority <= x.priority
                 THEN <<Head(t)>> \o InsertStable(Tail(t), x)
                 ELSE <<x>> \o t
    IN Insert[s]

RECURSIVE SortByPriority(_)
\* Array.prototype.sort with (a, b) => a.priority - b.priority: stable, ascending
SortByPriority(s) ==
    LET Sort[t \in {s}] ==
            IF t = <<>> THEN <<>>
            ELSE InsertStable(SortByPriority(SubSeq(t, 1, Len(t) - 1)), t[Len(t)])
    IN Sort[s]

enqueue(items, item, priority) ==
    SortByPriority(Append(items, [item |-> item, priority |-> priority]))

dequeue(items) == Head(items).item
isEmpty(items) == Len(items) = 0

----------------------------------------------------------------------------
RECURSIVE PushNeighborsUnrestricted(_, _, _, _, _, _)
\* variant for comparison: a restricted edge is treated as impassable
PushNeighborsUnrestricted(items, nbrs, current, vis, bat, m) ==
    IF nbrs = <<>> THEN items
    ELSE LET edge == EdgeById(Head(nbrs))
             gCost == current.cost + calculateEdgeCost(edge, bat, m)
             hCost == haversine(edge.to_lat, destLat)
             next == [node |-> edge.to_node, cost |-> gCost,
                      path |-> Append(current.path, edge.id), lat |-> edge.to_lat]
         IN IF edge.to_node \in vis \/ edge.restricted
            THEN PushNeighborsUnrestricted(items, Tail(nbrs), current, vis, bat, m)
            ELSE PushNeighborsUnrestricted(enqueue(items, next, gCost + hCost), Tail(nbrs),
                                           current, vis, bat, m)

RECURSIVE PushNeighborsAnywhere(_, _, _, _, _, _)
\* variant for comparison: the node an edge enters is not looked up in visited
PushNeighborsAnywhere(items, nbrs, current, vis, bat, m) ==
    IF nbrs = <<>> THEN items
    ELSE LET edge == EdgeById(Head(nbrs))
             gCost == current.cost + calculateEdgeCost(edge, bat, m)
             hCost == haversine(edge.to_lat, destLat)
             next == [node |-> edge.to_node, cost |-> gCost,
                      path |-> Append(current.path, edge.id), lat |-> edge.to_lat]
         IN PushNeighborsAnywhere(enqueue(items, next, gCost + hCost), Tail(nbrs),
                                  current, vis, bat, m)

(* AStar: the body of runAStar's for loop over the neighbours *)
RECURSIVE PushNeighbors(_, _, _, _, _, _)
PushNeighbors(items, nbrs, current, vis, bat, m) ==
    IF nbrs = <<>> THEN items
    ELSE LET edge == EdgeById(Head(nbrs))
             gCost == current.cost + calculateEdgeCost(edge, bat, m)
             hCost == haversine(edge.to_lat, destLat)
             next == [node |-> edge.to_node, cost |-> gCost,
                      path |-> Append(current.path, edge.id), lat |-> edge.to_lat]
         IN IF edge.to_node \in vis
            THEN PushNeighbors(items, Tail(nbrs), current, vis, bat, m)
            ELSE PushNeighbors(enqueue(items, next, gCost + hCost), Tail(nbrs),
                               current, vis, bat, m)

\* the edges of nbrs the for loop calls open.enqueue for: those that enter no visited node
EnqueuedEdges(nbrs, vis) ==
    LET EntersUnvisited(id) == EdgeById(id).to_node \notin vis
    IN SelectSeq(nbrs, EntersUnvisited)

----------------------------------------------------------------------------
(* Route planner: results *)
PlanPending == [kind |-> "pending", fastest |-> NotRun, greenest |-> NotRun, safest |-> NotRun]
PlanNull == [kind |-> "null", fastest |-> NotRun, greenest |-> NotRun, safest |-> NotRun]
PlanRecord(r) == [kind |-> "record", fastest |-> r[1], greenest |-> r[2], safest |-> r[3]]

NoRoutes == [i \in 1..3 |-> NotRun]

\* calculateEdgeCost has not returned
NoCost == [returned |-> FALSE, value |-> 0]

\* no search is running side by side
ParIdle == [pc |-> [i \in 1..3 |-> "idle"], open |-> [i \in 1..3 |-> <<>>],
            visited |-> [i \in 1..3 |-> {}], result |-> NoRoutes]

\* const destinationEdge = edges.find(e => e.to_node === end)
HasDestinationEdge(es, e) == \E i \in 1..Len(es) : es[i].to_node = e
DestinationEdge(es, e) ==
    es[CHOOSE i \in 1..Len(es) :
          /\ es[i].to_node = e
          /\ \A j \in 1..(i - 1) : es[j].to_node # e]

InitRoute ==
    /\ prog = "route"
    /\ callNo = 1
    /\ firstResult = PlanPending
    /\ edges \in EdgeLists
    /\ start \in Nodes
    /\ end \in Nodes
    /\ battery \in BatteryLevels
    /\ graph = EmptyGraph
    /\ destLat = 0
    /\ rpc = "call"
    /\ mode = 1
    /\ open = <<>>
    /\ visited = {}
    /\ pushed = <<>>
    /\ routes = NoRoutes
    /\ planResult = PlanPending
    /\ par = ParIdle
    /\ cost = NoCost
    /\ LoadsIdle

\* the running search returns res to runSmartRouteRealtime
ReturnFromSearch(res) ==
    /\ routes' = [routes EXCEPT ![mode] = res]
    /\ IF mode < Len(Modes)
       THEN mode' = mode + 1 /\ rpc' = "search"
       ELSE mode' = mode /\ rpc' = "return"

\* runSmartRouteRealtime, no edge enters end: return null
PlanNoDestination ==
    /\ prog = "route" /\ rpc = "call"
    /\ ~HasDestinationEdge(edges, end)
    /\ graph' = buildGraph(edges)
    /\ planResult' = PlanNull
    /\ routes' = NoRoutes
    /\ rpc' = "done"
    /\ UNCHANGED <<pushed, par, cost>>
    /\ UNCHANGED loadVars
    /\ UNCHANGED <<prog, callNo, firstResult, edges, start, end, battery, destLat, mode,
                   open, visited>>

\* runSmartRouteRealtime up to the first runAStar call
PlanBegin ==
    /\ prog = "route" /\ rpc = "call"
    /\ HasDestinationEdge(edges, end)
    /\ graph' = buildGraph(edges)
    /\ destLat' = DestinationEdge(edges, end).to_lat
    /\ routes' = NoRoutes
    /\ mode' = 1
    /\ rpc' = "search"
    /\ UNCHANGED <<pushed, par, cost>>
    /\ UNCHANGED loadVars
    /\ UNCHANGED <<prog, callNo, firstResult, edges, start, end, battery, open, visited,
                   planResult>>

\* runAStar: the start node has no outgoing edge, return null
AStarDeadEnd ==
    /\ prog = "route" /\ rpc = "search"
    /\ Neighbors(graph, start) = <<>>
    /\ open' = <<>>
    /\ ReturnFromSearch(NoRoute)
    /\ UNCHANGED <<pushed, par, cost>>
    /\ UNCHANGED loadVars
    /\ UNCHANGED <<prog, callNo, firstResult, edges, start, end, battery, graph, destLat,
                   visited, planResult>>

\* runAStar: enqueue the start state with priority 0, create the visited set
AStarBegin ==
    /\ prog = "route" /\ rpc = "search"
    /\ Neighbors(graph, start) # <<>>
    /\ LET startEdges == Neighbors(graph, start)
           startLat == EdgeById(startEdges[1]).from_lat
       IN open' = enqueue(<<>>, [node |-> start, cost |-> 0, path |-> <<>>,
                                 lat |-> startLat], 0)
    /\ visited' = {}
    /\ pushed' = <<>>
    /\ UNCHANGED <<par, cost>>
    /\ rpc' = "loop"
    /\ UNCHANGED loadVars
    /\ UNCHANGED <<prog, callNo, firstResult, edges, start, end, battery, graph, destLat,
                   mode, routes, planResult>>

\* runAStar: the frontier is empty, return null
AStarExhausted ==
    /\ prog = "route" /\ rpc = "loop"
    /\ isEmpty(open)
    /\ ReturnFromSearch(NoRoute)
    /\ UNCHANGED <<pushed, par, cost>>
    /\ UNCHANGED loadVars
    /\ UNCHANGED <<prog, callNo, firstResult, edges, start, end, battery, graph, destLat,
                   open, visited, planResult>>

\* runAStar: the popped state is at end, return its path
AStarReturnPath ==
    /\ prog = "route" /\ rpc = "loop"
    /\ ~isEmpty(open)
    /\ dequeue(open).node = end
    /\ open' = Tail(open)
    /\ ReturnFromSearch(Route(dequeue(open).path))
    /\ UNCHANGED <<pushed, par, cost>>
    /\ UNCHANGED loadVars
    /\ UNCHANGED <<prog, callNo, firstResult, edges, start, end, battery, graph, destLat,
                   visited, planResult>>

\* runAStar: the popped state's node is already visited, continue
AStarSkipVisited ==
    /\ prog = "route" /\ rpc = "loop"
    /\ ~isEmpty(open)
    /\ dequeue(open).node # end
    /\ dequeue(open).node \in visited
    /\ open' = Tail(open)
    /\ UNCHANGED <<pushed, par, cost>>
    /\ UNCHANGED loadVars
    /\ UNCHANGED <<prog, callNo, firstResult, edges, start, end, battery, graph, destLat,
                   rpc, mode, visited, routes, planResult>>

\* variant for comparison: a popped state is expanded whether or not its node is visited
AStarExpandRevisit ==
    /\ prog = "route" /\ rpc = "loop"
    /\ ~isEmpty(open)
    /\ dequeue(open).node # end
    /\ LET current == dequeue(open)
           vis == visited \cup {current.node}
       IN /\ visited' = vis
          /\ open' = PushNeighbors(Tail(open), Neighbors(graph, current.node), current,
                                   vis, battery, Modes[mode])
          /\ pushed' = pushed \o EnqueuedEdges(Neighbors(graph, current.node), vis)
    /\ UNCHANGED <<par, cost>>
    /\ UNCHANGED loadVars
    /\ UNCHANGED <<prog, callNo, firstResult, edges, start, end, battery, graph, destLat,
                   rpc, mode, routes, planResult>>

\* runAStar: mark the popped node visited and push a state for every edge to an
\* unvisited node
AStarExpand ==
    /\ prog = "route" /\ rpc = "loop"
    /\ ~isEmpty(open)
    /\ dequeue(open).node # end
    /\ dequeue(open).node \notin visited
    /\ LET current == dequeue(open)
           vis == visited \cup {current.node}
       IN /\ visited' = vis
          /\ open' = PushNeighbors(Tail(open), Neighbors(graph, current.node), current,
                                   vis, battery, Modes[mode])
          /\ pushed' = pushed \o EnqueuedEdges(Neighbors(graph, current.node), vis)
    /\ UNCHANGED <<par, cost>>
    /\ UNCHANGED loadVars
    /\ UNCHANGED <<prog, callNo, firstResult, edges, start, end, battery, graph, destLat,
                   rpc, mode, routes, planResult>>

\* runSmartRouteRealtime: return { fastest, greenest, safest }
PlanReturn ==
    /\ prog = "route" /\ rpc = "return"
    /\ planResult' = PlanRecord(routes)
    /\ rpc' = "done"
    /\ UNCHANGED <<pushed, par, cost>>
    /\ UNCHANGED loadVars
    /\ UNCHANGED <<prog, callNo, firstResult, edges, start, end, battery, graph, destLat,
                   mode, open, visited, routes>>

\* the caller keeps the result and calls runSmartRouteRealtime again with the same
\* arguments
PlanAgain ==
    /\ prog = "route" /\ rpc = "done" /\ callNo = 1
    /\ firstResult' = planResult
    /\ callNo' = 2
    /\ planResult' = PlanPending
    /\ rpc' = "call"
    /\ UNCHANGED <<pushed, par, cost>>
    /\ UNCHANGED loadVars
    /\ UNCHANGED <<prog, edges, start, end, battery, graph, destLat, mode, open, visited,
                   routes>>

NextRoute ==
    \/ PlanNoDestination
    \/ PlanBegin
    \/ AStarDeadEnd
    \/ AStarBegin
    \/ AStarExhausted
    \/ AStarReturnPath
    \/ AStarSkipVisited
    \/ AStarExpand
    \/ PlanReturn
    \/ PlanAgain

SpecRoute == InitRoute /\ [][NextRoute]_vars

\* runSmartRouteRealtime is synchronous code: a step that can be taken is taken
SpecRouteFair == SpecRoute /\ WF_vars(NextRoute)

----------------------------------------------------------------------------
(* Route planner: the three searches of runSmartRouteRealtime side by side *)
\* variant for comparison: one visited set for the three searches
VisitedSlotShared(i) == 1

\* const visited = new Set<string>() inside runAStar: one set per call
VisitedSlot(i) == i

\* const open = new PriorityQueue<NodeState>() inside runAStar: one queue per call
FrontierSlot(i) == i

\* runAStar of search i was called and has not run a statement yet
ParStart == [ParIdle EXCEPT !.pc = [i \in 1..3 |-> "search"]]

StartState == [node |-> start, cost |-> 0, path |-> <<>>,
               lat |-> EdgeById(Neighbors(graph, start)[1]).from_lat]

\* one step of search i on the locals p: the statements of runAStar up to the loop, or
\* one pass of its while loop
SearchStep(p, i) ==
    LET items == p.open[FrontierSlot(i)]
        vis == p.visited[VisitedSlot(i)]
    IN IF p.pc[i] = "search"
       THEN IF Neighbors(graph, start) = <<>>
            THEN [p EXCEPT !.pc[i] = "returned", !.result[i] = NoRoute]
            ELSE [p EXCEPT !.pc[i] = "loop",
                           !.open[FrontierSlot(i)] = enqueue(<<>>, StartState, 0),
                           !.visited[VisitedSlot(i)] = {}]
       ELSE IF isEmpty(items)
       THEN [p EXCEPT !.pc[i] = "returned", !.result[i] = NoRoute]
       ELSE IF dequeue(items).node = end
       THEN [p EXCEPT !.pc[i] = "returned", !.result[i] = Route(dequeue(items).path),
                      !.open[FrontierSlot(i)] = Tail(items)]
       ELSE IF dequeue(items).node \in vis
       THEN [p EXCEPT !.open[FrontierSlot(i)] = Tail(items)]
       ELSE [p EXCEPT !.visited[VisitedSlot(i)] = vis \cup {dequeue(items).node},
                      !.open[FrontierSlot(i)] =
                          PushNeighbors(Tail(items), Neighbors(graph, dequeue(items).node),
                                        dequeue(items), vis \cup {dequeue(items).node},
                                        battery, Modes[i])]

RECURSIVE RunSearch(_, _)
\* search i run to its return with no other search taking a step
RunSearch(p, i) ==
    IF p.pc[i] = "returned" THEN p.result[i] ELSE RunSearch(SearchStep(p, i), i)

RunAlone(i) == RunSearch(ParStart, i)

InitRoutePar ==
    /\ prog = "par"
    /\ callNo = 1
    /\ firstResult = PlanPending
    /\ edges \in EdgeLists
    /\ start \in Nodes
    /\ end \in Nodes
    /\ battery \in BatteryLevels
    /\ graph = EmptyGraph
    /\ destLat = 0
    /\ rpc = "call"
    /\ mode = 1
    /\ open = <<>>
    /\ visited = {}
    /\ pushed = <<>>
    /\ routes = NoRoutes
    /\ planResult = PlanPending
    /\ par = ParIdle
    /\ cost = NoCost
    /\ LoadsIdle

\* runSmartRouteRealtime, no edge enters end: return null
ParNoDestination ==
    /\ prog = "par" /\ rpc = "call"
    /\ ~HasDestinationEdge(edges, end)
    /\ graph' = buildGraph(edges)
    /\ planResult' = PlanNull
    /\ rpc' = "done"
    /\ UNCHANGED loadVars
    /\ UNCHANGED <<prog, callNo, firstResult, edges, start, end, battery, destLat, mode,
                   open, visited, pushed, routes, par, cost>>

\* runSmartRouteRealtime up to the searches, which are then started side by side
ParBegin ==
    /\ prog = "par" /\ rpc = "call"
    /\ HasDestinationEdge(edges, end)
    /\ graph' = buildGraph(edges)
    /\ destLat' = DestinationEdge(edges, end).to_lat
    /\ par' = ParStart
    /\ rpc' = "search"
    /\ UNCHANGED loadVars
    /\ UNCHANGED <<prog, callNo, firstResult, edges, start, end, battery, mode, open,
                   visited, pushed, routes, planResult, cost>>

\* one of the searches takes a step
ParStep ==
    /\ prog = "par" /\ rpc = "search"
    /\ \E i \in 1..3 :
          /\ par.pc[i] # "returned"
          /\ par' = SearchStep(par, i)
    /\ UNCHANGED loadVars
    /\ UNCHANGED <<prog, callNo, firstResult, edges, start, end, battery, graph, destLat,
                   rpc, mode, open, visited, pushed, routes, planResult, cost>>

\* the three searches have returned: return { fastest, greenest, safest }
ParReturn ==
    /\ prog = "par" /\ rpc = "search"
    /\ \A i \in 1..3 : par.pc[i] = "returned"
    /\ planResult' = PlanRecord(par.result)
    /\ rpc' = "done"
    /\ UNCHANGED loadVars
    /\ UNCHANGED <<prog, callNo, firstResult, edges, start, end, battery, graph, destLat,
                   mode, open, visited, pushed, routes, par, cost>>

NextRoutePar ==
    \/ ParNoDestination
    \/ ParBegin
    \/ ParStep
    \/ ParReturn

SpecRoutePar == InitRoutePar /\ [][NextRoutePar]_vars

----------------------------------------------------------------------------
(* CostFunction.ts: calculateEdgeCost called on its own *)
CostDistances == {-1, 0, 1, 10, 6000}
CostCongestions == {0, 5, 10}          \* tenths: 0, 0.5, 1
CostAqis == {0, 3, 500}
CostBatteries == {-5, 0, 24, 25, 100}

CostEdges ==
    {[id |-> 0, from_node |-> "A", to_node |-> "B", distance |-> d, congestion |-> c,
      aqi |-> q, restricted |-> r, from_lat |-> 0, to_lat |-> 12] :
        d \in CostDistances, c \in CostCongestions, q \in CostAqis, r \in BOOLEAN}

InitCost ==
    /\ prog = "cost"
    /\ callNo = 1
    /\ firstResult = PlanPending
    /\ \E e \in CostEdges : edges = <<e>>
    /\ start = "A"
    /\ end = "B"
    /\ battery \in CostBatteries
    /\ graph = EmptyGraph
    /\ destLat = 0
    /\ rpc = "call"
    /\ mode \in 1..3
    /\ open = <<>>
    /\ visited = {}
    /\ pushed = <<>>
    /\ routes = NoRoutes
    /\ planResult = PlanPending
    /\ par = ParIdle
    /\ cost = NoCost
    /\ LoadsIdle

\* calculateEdgeCost(edge, { battery, mode }) returns
CostCall ==
    /\ prog = "cost" /\ rpc = "call"
    /\ cost' = [returned |-> TRUE, value |-> calculateEdgeCost(edges[1], battery, Modes[mode])]
    /\ rpc' = "done"
    /\ UNCHANGED loadVars
    /\ UNCHANGED <<prog, callNo, firstResult, edges, start, end, battery, graph, destLat,
                   mode, open, visited, pushed, routes, planResult, par>>

NextCost == CostCall

SpecCost == InitCost /\ [][NextCost]_vars

\* the route planner and the cost function on its own
InitPlanner == InitRoute \/ InitCost
NextPlanner == NextRoute \/ NextCost
SpecPlanner == InitPlanner /\ [][NextPlanner]_vars

----------------------------------------------------------------------------
(* Route planner: what the claims speak about *)
Finished(i) == routes[i] # NotRun

\* the node a path of edge ids from node s ends in
PathEnd(s, p) == IF p = <<>> THEN s ELSE EdgeById(p[Len(p)]).to_node
PathNodes(s, p) == {s} \cup {EdgeById(p[k]).to_node : k \in 1..Len(p)}

\* the paths one edge longer than those of P that enter no node twice
ExtendPaths(es, s, P) ==
    P \cup {Append(p, es[k].id) : <<p, k>> \in
               {<<q, j>> \in P \X (1..Len(es)) :
                   /\ es[j].from_node = PathEnd(s, q)
                   /\ es[j].to_node \notin PathNodes(s, q)}}

RECURSIVE SimplePathsUpTo(_, _, _)
SimplePathsUpTo(es, s, n) ==
    IF n = 0 THEN {<<>>} ELSE ExtendPaths(es, s, SimplePathsUpTo(es, s, n - 1))

\* every edge path from s that enters no node twice and never re-enters s
SimplePaths(es, s) == SimplePathsUpTo(es, s, Cardinality(Nodes))

\* the nodes reachable from s by zero or more edges
Reachable(es, s) == {PathEnd(s, p) : p \in SimplePaths(es, s)}

\* some non-empty edge path leads from s to e
EdgePathExists(es, s, e) ==
    \E k \in 1..Len(es) : es[k].from_node \in Reachable(es, s) /\ es[k].to_node = e

PathCost(p, bat, m) == SumSeq([k \in 1..Len(p) |-> calculateEdgeCost(EdgeById(p[k]), bat, m)])

RestrictedFree(p) == \A k \in 1..Len(p) : ~EdgeById(p[k]).restricted

\* the least total edge cost of a path from s to e (costs are >= 0, so a least-cost
\* path can be taken simple; the empty path serves s = e)
MinCost(es, s, e, bat, m) ==
    LET costs == {PathCost(p, bat, m) : p \in {q \in SimplePaths(es, s) : PathEnd(s, q) = e}}
    IN CHOOSE c \in costs : \A d \in costs : c <= d

\* p is a non-empty chain of edges from s to e
IsChain(p, s, e) ==
    /\ p # <<>>
    /\ EdgeById(p[1]).from_node = s
    /\ \A k \in 1..(Len(p) - 1) : EdgeById(p[k + 1]).from_node = EdgeById(p[k]).to_node
    /\ EdgeById(p[Len(p)]).to_node = e

\* C3: every result of runAStar is null or a non-empty chain of edges from start to
\* end, also when start = end.
C3_PathIsNonEmptyChain ==
    \A i \in 1..3 : Finished(i) =>
        \/ routes[i] = NoRoute
        \/ routes[i].found /\ IsChain(routes[i].path, start, end)

\* C4: the path runAStar returns has the least total edgeCost among all edge paths
\* from start to end, in every mode.
C4_PathIsLeastCost ==
    \A i \in 1..3 : (Finished(i) /\ routes[i].found) =>
        PathCost(routes[i].path, battery, Modes[i]) = MinCost(edges, start, end, battery, Modes[i])

\* C5: when an edge path leads from start to end (restricted edges included) runAStar
\* returns a path; it returns null only when end is not reachable from start or start
\* has no outgoing edge.
C5_ReachableIsFound ==
    \A i \in 1..3 : Finished(i) =>
        /\ EdgePathExists(edges, start, end) => routes[i].found
        /\ ~routes[i].found =>
              \/ end \notin Reachable(edges, start)
              \/ Neighbors(graph, start) = <<>>

\* a search returned a path although every path from start to end has a restricted edge
C5_Witness ==
    /\ rpc = "done"
    /\ \E i \in 1..3 : routes[i].found /\ routes[i].path # <<>>
    /\ \A p \in SimplePaths(edges, start) : PathEnd(start, p) = end => ~RestrictedFree(p)

\* some path without restricted edge leads from start to end
UnrestrictedPathExists ==
    \E p \in SimplePaths(edges, start) : p # <<>> /\ PathEnd(start, p) = end /\ RestrictedFree(p)

\* C6 as stated: whenever a path without restricted edge leads from start to end, the
\* returned path has no restricted edge, in every mode.
C6_AvoidsRestricted ==
    \A i \in 1..3 : (Finished(i) /\ routes[i].found /\ UnrestrictedPathExists) =>
        RestrictedFree(routes[i].path)

\* every restricted-free path leaving start stays below the restricted penalty in
\* cost plus heuristic
BelowPenalty(i) ==
    \A p \in SimplePaths(edges, start) : (p # <<>> /\ RestrictedFree(p)) =>
        PathCost(p, battery, Modes[i]) + haversine(EdgeById(p[Len(p)]).to_lat, destLat)
            < RestrictedPenalty * 10

\* C6 amended: whenever a path without restricted edge leads from start to end and
\* every restricted-free path leaving start has a total edgeCost plus haversine
\* estimate below the restricted penalty 10000, the returned path has no restricted
\* edge.
C6_AvoidsRestrictedBelowPenalty ==
    \A i \in 1..3 : (Finished(i) /\ routes[i].found /\ UnrestrictedPathExists /\ BelowPenalty(i)) =>
        RestrictedFree(routes[i].path)

\* the scenario of the spec: restricted A->B of distance 10 against A->C->B of
\* distance 12, and the fastest search returned A->C->B
C6_Witness ==
    /\ rpc = "done"
    /\ \E k \in 1..Len(edges) : edges[k].id = 1
    /\ routes[1] = Route(<<2, 3>>)
    /\ BelowPenalty(1)

\* C7: runSmartRouteRealtime returns a record of three entries, each a path or null,
\* and the entry of every mode is null when end cannot be reached from start.
C7_PlanReturnsRecord ==
    rpc = "done" =>
        /\ planResult.kind = "record"
        /\ \A r \in {planResult.fastest, planResult.greenest, planResult.safest} :
              r # NotRun /\ (end \notin Reachable(edges, start) => r = NoRoute)

----------------------------------------------------------------------------
(* LoadMatcher: constants *)
MAX_CANDIDATES_PER_VEHICLE == 24
MAX_BUNDLE_SIZE == 4
MAX_SEEDS == 8
MAX_PICKUP_RADIUS_KM == 30
BASE_AVG_SPEED_KMPH == 28
FUEL_PER_KM_100 == 12            \* FUEL_PER_KM = 0.12, in hundredths
FUEL_PRICE == 100
COST_PER_KM == 14
NEARBY_RADIUS_KM == 6            \* pointDistance(vehiclePoint, point) <= 6
GROWTH_THRESHOLD_1000 == 20      \* boostedScore > bestNextEval.score + 0.02
BONUS_CAP_1000 == 150            \* Math.min(0.15, pairBonus / 20)
BONUS_DIVISOR == 20

\* Math.round(n / d) for d > 0: the nearest integer, halves upwards
RoundDiv(n, d) == (2 * n + d) \div (2 * d)

RECURSIVE DivDigits(_, _, _, _)
\* acc followed by the next n decimal digits of rem / q, for 0 <= rem < q
DivDigits(rem, q, n, acc) ==
    IF n = 0 THEN acc
    ELSE DivDigits((rem * 10) % q, q, n - 1, acc * 10 + (rem * 10) \div q)

\* clamp01(p / q) in millionths, for q > 0
Ratio6(p, q) ==
    IF p <= 0 THEN 0
    ELSE IF p >= q THEN 1000000
    ELSE DivDigits(p, q, 6, 0)

\* pointDistance on the meridian: km
pointDistance(a, b) == Abs(b - a)

\* routeAwareDistance: thousandths of a km for a direct distance in km and a traffic
\* factor in hundredths
routeAwareDistance(directDistanceKm, trafficFactor) ==
    LET deviationFactor == 1080 + Min2(180, (trafficFactor - 100) * 4)
    IN directDistanceKm * deviationFactor

normalizeWeight(value) == IF value > 0 THEN value ELSE 0

\* normalizeVehiclePoint(vehicle) !== null
HasPoint(vehicle) == vehicle.located

\* the weights in hundredths: utilization, savings, costEfficiency, deviationPenalty,
\* overloadRisk; the traffic factor in hundredths
DefaultWeights == [utilization |-> 40, savings |-> 30, costEfficiency |-> 10,
                   deviationPenalty |-> 15, overloadRisk |-> 5]
DenseWeights == [utilization |-> 50, savings |-> 25, costEfficiency |-> 8,
                 deviationPenalty |-> 14, overloadRisk |-> 3]
SparseWeights == [utilization |-> 32, savings |-> 33, costEfficiency |-> 20,
                  deviationPenalty |-> 10, overloadRisk |-> 5]

getTrafficAwareWeights(vehicle, vs) ==
    IF ~HasPoint(vehicle)
    THEN [weights |-> DefaultWeights, trafficFactor |-> 100, localDensity |-> 0]
    ELSE LET nearbyVehicles ==
                 Cardinality({k \in 1..Len(vs) :
                     /\ vs[k].id # vehicle.id
                     /\ HasPoint(vs[k])
                     /\ pointDistance(vehicle.lat, vs[k].lat) <= NEARBY_RADIUS_KM})
         IN IF nearbyVehicles >= 5
            THEN [weights |-> DenseWeights, trafficFactor |-> 120,
                  localDensity |-> nearbyVehicles]
            ELSE IF nearbyVehicles <= 1
            THEN [weights |-> SparseWeights, trafficFactor |-> 105,
                  localDensity |-> nearbyVehicles]
            ELSE [weights |-> DefaultWeights, trafficFactor |-> 112,
                  localDensity |-> nearbyVehicles]

----------------------------------------------------------------------------
(* LoadMatcher: route simulation.  A bundle is a sequence of delivery records. *)
StopOf(d, key) == IF key = "pickup" THEN d.from_lat ELSE d.to_lat

\* variant for comparison: the candidates are visited in the order of the bundle
firstOrder(origin, cands, key) == 1

\* nearestOrder: the index of the first candidate at the least distance from origin
nearestOrder(origin, cands, key) ==
    CHOOSE i \in 1..Len(cands) :
        /\ \A j \in 1..Len(cands) :
              pointDistance(origin, StopOf(cands[i], key)) <= pointDistance(origin, StopOf(cands[j], key))
        /\ \A j \in 1..(i - 1) :
              pointDistance(origin, StopOf(cands[j], key)) > pointDistance(origin, StopOf(cands[i], key))

\* s without the first element whose id is id (findIndex + splice)
RemoveFirstId(s, id) ==
    LET idx == CHOOSE i \in 1..Len(s) : s[i].id = id /\ \A j \in 1..(i - 1) : s[j].id # id
    IN SubSeq(s, 1, idx - 1) \o SubSeq(s, idx + 1, Len(s))

RECURSIVE VisitStops(_, _, _, _, _)
\* one while loop of simulateBundleRoute: visit the nearest remaining stop until none
\* remains; yields the stops appended and the direct distance added
VisitStops(cursor, remaining, key, stops, dist) ==
    IF remaining = <<>> THEN [cursor |-> cursor, stops |-> stops, dist |-> dist]
    ELSE LET next == remaining[nearestOrder(cursor, remaining, key)]
             nextPoint == StopOf(next, key)
         IN VisitStops(nextPoint, RemoveFirstId(remaining, next.id), key,
                       Append(stops, nextPoint), dist + pointDistance(cursor, nextPoint))

\* the second while loop of simulateBundleRoute: the drops, from where the pickups ended
VisitDrops(pickups, bundle) ==
    VisitStops(pickups.cursor, bundle, "drop", pickups.stops, pickups.dist)

\* the record simulateBundleRoute returns, from the stops visited and their direct
\* distance: routeDistanceKm in tenths of a km, durationMin in minutes
RouteOfStops(walk, trafficFactor) ==
    LET routeDistance == routeAwareDistance(walk.dist, trafficFactor)
    IN [routeDistanceKm |-> RoundDiv(routeDistance, 100),
        durationMin |-> RoundDiv(routeDistance * 3 * trafficFactor, 140000),
        routeCoordinates |-> walk.stops]

simulateBundleRoute(vehiclePoint, bundle, trafficFactor) ==
    RouteOfStops(VisitDrops(VisitStops(vehiclePoint, bundle, "pickup", <<vehiclePoint>>, 0),
                            bundle),
                 trafficFactor)

----------------------------------------------------------------------------
(* LoadMatcher: evaluateBundleScore *)
RECURSIVE ExpSeries(_, _, _, _)
\* the terms k..7 of the series of exp(x) - 1, x and the terms in ten-thousandths
ExpSeries(x, term, k, acc) ==
    IF k > 7 THEN acc
    ELSE LET t == (term * x) \div (k * 10000)
         IN ExpSeries(x, t, k + 1, acc + t)

\* clamp01(Math.exp(Math.max(0, extraKm - 15) / 15) - 1) in millionths, for extraKm in
\* thousandths of a km; exp(x) - 1 >= 1 from x = ln 2 = 0.69315 on
DeviationPenalty6(extraDeviation) ==
    LET x == (Max2(0, extraDeviation - 15000) * 2) \div 3        \* ten-thousandths
    IN IF x >= 6932 THEN 1000000
       ELSE Min2(1000000, (x + ExpSeries(x, x, 2, 0)) * 100)

BundleWeight(bundle) == SumSeq([k \in 1..Len(bundle) |-> normalizeWeight(bundle[k].weight)])

\* sum of the separate trips vehicle -> pickup -> drop, in thousandths of a km
BaselineDistance(bundle, vehiclePoint, trafficFactor) ==
    SumSeq([k \in 1..Len(bundle) |->
        routeAwareDistance(pointDistance(vehiclePoint, bundle[k].from_lat)
                           + pointDistance(bundle[k].from_lat, bundle[k].to_lat),
                           trafficFactor)])

\* the terms of the score, in millionths, from the distances in thousandths of a km
SavingsKm(baselineDistance, simulatedDistance) == Max2(0, baselineDistance - simulatedDistance)

SavingsRatio(baselineDistance, simulatedDistance) ==
    IF baselineDistance > 0
    THEN Ratio6(SavingsKm(baselineDistance, simulatedDistance), baselineDistance) ELSE 0

CostEfficiency(baselineDistance, simulatedDistance) ==
    IF baselineDistance * COST_PER_KM > 0
    THEN Ratio6(baselineDistance * COST_PER_KM - simulatedDistance * COST_PER_KM,
                baselineDistance * COST_PER_KM)
    ELSE 0

\* fillRatio = (currentLoad + bundleWeight) / vehicleCapacity
OverloadRisk(filled, vehicleCapacity) ==
    IF 10 * filled > 9 * vehicleCapacity
    THEN Ratio6(10 * filled - 9 * vehicleCapacity, vehicleCapacity) ELSE 0

UtilizationGain(bundleWeight, availableCapacity) ==
    IF availableCapacity > 0 THEN Ratio6(bundleWeight, availableCapacity) ELSE 0

\* the record evaluateBundleScore returns, from its locals: score and savingsRatio in
\* thousandths, savingsKm, baselineDistance and routeDistanceKm in tenths of a km,
\* utilization in tenths of a percent
BundleEvaluation(vehicleCapacity, currentLoad, bundleWeight, baselineDistance, simulated, weights) ==
    [score |->
        RoundDiv(weights.utilization
                    * UtilizationGain(bundleWeight, Max2(0, vehicleCapacity - currentLoad))
                 + weights.savings
                    * SavingsRatio(baselineDistance, simulated.routeDistanceKm * 100)
                 + weights.costEfficiency
                    * CostEfficiency(baselineDistance, simulated.routeDistanceKm * 100)
                 - weights.deviationPenalty
                    * DeviationPenalty6(Max2(0, simulated.routeDistanceKm * 100
                                                - baselineDistance))
                 - weights.overloadRisk
                    * OverloadRisk(currentLoad + bundleWeight, vehicleCapacity),
                 100000),
     savingsKm |-> RoundDiv(SavingsKm(baselineDistance, simulated.routeDistanceKm * 100), 100),
     savingsRatio |->
        RoundDiv(SavingsRatio(baselineDistance, simulated.routeDistanceKm * 100), 1000),
     utilization |-> RoundDiv(Ratio6(currentLoad + bundleWeight, vehicleCapacity), 1000),
     baselineDistance |-> RoundDiv(baselineDistance, 100),
     routeDistanceKm |-> simulated.routeDistanceKm,
     durationMin |-> simulated.durationMin,
     routeCoordinates |-> simulated.routeCoordinates]

evaluateBundleScore(bundle, vehicle, vehiclePoint, weights, trafficFactor) ==
    BundleEvaluation(Max2(1, normalizeWeight(vehicle.capacity)),
                     normalizeWeight(vehicle.current_load),
                     BundleWeight(bundle),
                     BaselineDistance(bundle, vehiclePoint, trafficFactor),
                     simulateBundleRoute(vehiclePoint, bundle, trafficFactor),
                     weights)

----------------------------------------------------------------------------
(* LoadMatcher: savings matrix and candidates *)
\* the matrix as a function of the pairs of ids, savings in thousandths of a km
buildSavingsMatrix(vehiclePoint, cands, trafficFactor) ==
    LET Savings(a, b) ==
            LET depotToA == routeAwareDistance(pointDistance(vehiclePoint, a.from_lat), trafficFactor)
                depotToB == routeAwareDistance(pointDistance(vehiclePoint, b.from_lat), trafficFactor)
                aToB == routeAwareDistance(pointDistance(a.from_lat, b.from_lat), trafficFactor)
            IN Max2(0, depotToA + depotToB - aToB)
        pairs == {<<i, j>> \in (1..Len(cands)) \X (1..Len(cands)) : i # j}
    IN [key \in {<<cands[pr[1]].id, cands[pr[2]].id>> : pr \in pairs} |->
           LET pr == CHOOSE q \in pairs : <<cands[q[1]].id, cands[q[2]].id>> = key
           IN Savings(cands[pr[1]], cands[pr[2]])]

\* matrix.get(`${a}|${b}`) ?? 0
pairSavings(matrix, a, b) == IF <<a, b>> \in DOMAIN matrix THEN matrix[<<a, b>>] ELSE 0

RECURSIVE InsertByDistance(_, _)
InsertByDistance(s, x) ==
    IF s = <<>> THEN <<x>>
    ELSE IF Head(s).pickupDistance <= x.pickupDistance
         THEN <<Head(s)>> \o InsertByDistance(Tail(s), x)
         ELSE <<x>> \o s

RECURSIVE SortByDistance(_)
\* Array.prototype.sort with (a, b) => a.pickupDistance - b.pickupDistance
SortByDistance(s) ==
    IF s = <<>> THEN <<>>
    ELSE InsertByDistance(SortByDistance(SubSeq(s, 1, Len(s) - 1)), s[Len(s)])

RECURSIVE FilterInRadius(_)
\* .filter((item) => item.pickupDistance <= MAX_PICKUP_RADIUS_KM)
FilterInRadius(s) ==
    IF s = <<>> THEN <<>>
    ELSE IF Head(s).pickupDistance <= MAX_PICKUP_RADIUS_KM
         THEN <<Head(s)>> \o FilterInRadius(Tail(s))
         ELSE FilterInRadius(Tail(s))

\* Array.prototype.slice(0, n)
Slice(s, n) == SubSeq(s, 1, Min2(n, Len(s)))

WithPickupDistance(vehiclePoint, ds) ==
    [k \in 1..Len(ds) |-> [delivery |-> ds[k],
                           pickupDistance |-> pointDistance(vehiclePoint, ds[k].from_lat)]]

\* variant for comparison: the candidates are not cut to MAX_CANDIDATES_PER_VEHICLE
pickVehicleCandidatesUncapped(vehiclePoint, ds) ==
    LET sorted == SortByDistance(FilterInRadius(WithPickupDistance(vehiclePoint, ds)))
    IN [k \in 1..Len(sorted) |-> sorted[k].delivery]

pickVehicleCandidates(vehiclePoint, ds) ==
    LET sorted == Slice(SortByDistance(FilterInRadius(WithPickupDistance(vehiclePoint, ds))),
                        MAX_CANDIDATES_PER_VEHICLE)
    IN [k \in 1..Len(sorted) |-> sorted[k].delivery]

\* [...candidates].sort(by pickup distance).slice(0, MAX_SEEDS)
SeedsOf(vehiclePoint, cands) ==
    LET sorted == Slice(SortByDistance(WithPickupDistance(vehiclePoint, cands)), MAX_SEEDS)
    IN [k \in 1..Len(sorted) |-> sorted[k].delivery]

\* variant for comparison: the weight already in the bundle is left out of the capacity test
FitsCandidateAlone(bundle, candidate, availableCapacity) ==
    ~(normalizeWeight(candidate.weight) > availableCapacity)

\* addDeliveryIfFits(bundle, candidate, availableCapacity) !== null
Fits(bundle, candidate, availableCapacity) ==
    ~(BundleWeight(bundle) + normalizeWeight(candidate.weight) > availableCapacity)

addDeliveryIfFits(bundle, candidate, availableCapacity) ==
    IF Fits(bundle, candidate, availableCapacity) THEN Append(bundle, candidate) ELSE <<>>

AvailableCapacity(vehicle) ==
    Max2(0, normalizeWeight(vehicle.capacity) - normalizeWeight(vehicle.current_load))

----------------------------------------------------------------------------
(* LoadMatcher: inputs *)
\* ConsolidationVehicle; located stands for lat and lng being numbers other than NaN
VehiclePool == <<
    [id |-> "v1", capacity |-> 10, current_load |-> 0, located |-> TRUE,  lat |-> 0],
    [id |-> "v2", capacity |-> 12, current_load |-> 2, located |-> TRUE,  lat |-> 4],
    [id |-> "v3", capacity |-> 5,  current_load |-> 5, located |-> TRUE,  lat |-> 2],
    [id |-> "v4", capacity |-> 10, current_load |-> 0, located |-> FALSE, lat |-> 0],
    [id |-> "v5", capacity |-> 6,  current_load |-> 1, located |-> TRUE,  lat |-> -10]
>>

\* vehicles without capacity parked near v1 and v2
IdleIds == <<"p1", "p2", "p3", "p4", "p5", "p6", "p7", "p8">>
IdleVehicles(k) ==
    [i \in 1..k |-> [id |-> IdleIds[i], capacity |-> 0, current_load |-> 0,
                     located |-> TRUE, lat |-> 1]]
IdleCounts == {0, 1, MaxIdleVehicles}

\* ConsolidationDelivery; finite stands for the four coordinates being finite
DeliveryPool == <<
    [id |-> "d1", weight |-> 4, from_lat |-> 2,   to_lat |-> 10,  status |-> "pending",   finite |-> TRUE],
    [id |-> "d2", weight |-> 8, from_lat |-> 3,   to_lat |-> 12,  status |-> "pending",   finite |-> TRUE],
    [id |-> "d3", weight |-> 3, from_lat |-> 5,   to_lat |-> 11,  status |-> "pending",   finite |-> TRUE],
    [id |-> "d4", weight |-> 2, from_lat |-> 2,   to_lat |-> -20, status |-> "assigned",  finite |-> TRUE],
    [id |-> "d5", weight |-> 4, from_lat |-> 33,  to_lat |-> 50,  status |-> "pending",   finite |-> TRUE],
    [id |-> "d6", weight |-> 1, from_lat |-> 1,   to_lat |-> 3,   status |-> "pending",   finite |-> FALSE],
    [id |-> "d7", weight |-> 2, from_lat |-> 20,  to_lat |-> 21,  status |-> "pending",   finite |-> TRUE],
    [id |-> "d8", weight |-> 2, from_lat |-> -20, to_lat |-> -21, status |-> "pending",   finite |-> TRUE],
    [id |-> "d9", weight |-> 5, from_lat |-> 6,   to_lat |-> 8,   status |-> "delivered", finite |-> TRUE]
>>

PoolLists(pool, max) ==
    {[k \in 1..Cardinality(S) |-> pool[SeqOfSet(S)[k]]] :
        S \in {T \in SUBSET (1..Len(pool)) : Cardinality(T) <= max}}

VehicleLists == {real \o IdleVehicles(k) : real \in PoolLists(VehiclePool, MaxVehicles), k \in IdleCounts}

\* five light deliveries along one road: more candidates than a bundle may hold
DenseDeliveries == <<
    [id |-> "e1", weight |-> 2, from_lat |-> 2, to_lat |-> 10, status |-> "pending", finite |-> TRUE],
    [id |-> "e2", weight |-> 2, from_lat |-> 3, to_lat |-> 11, status |-> "pending", finite |-> TRUE],
    [id |-> "e3", weight |-> 2, from_lat |-> 4, to_lat |-> 12, status |-> "pending", finite |-> TRUE],
    [id |-> "e4", weight |-> 2, from_lat |-> 5, to_lat |-> 13, status |-> "pending", finite |-> TRUE],
    [id |-> "e5", weight |-> 2, from_lat |-> 6, to_lat |-> 14, status |-> "pending", finite |-> TRUE]
>>

\* more open deliveries around one depot than a vehicle gets candidates: 24 heavy ones
\* close by and a light one behind them
CrowdIds == <<"c1", "c2", "c3", "c4", "c5", "c6", "c7", "c8", "c9", "c10", "c11", "c12",
              "c13", "c14", "c15", "c16", "c17", "c18", "c19", "c20", "c21", "c22", "c23",
              "c24">>
CrowdedDeliveries ==
    [k \in 1..Len(CrowdIds) |->
        [id |-> CrowdIds[k], weight |-> 6, from_lat |-> 1 + (k - 1) \div 4,
         to_lat |-> 10 + (k - 1) \div 4, status |-> "pending", finite |-> TRUE]]
    \o <<[id |-> "c25", weight |-> 2, from_lat |-> 7, to_lat |-> 12, status |-> "pending",
          finite |-> TRUE]>>

DeliveryLists == PoolLists(DeliveryPool, MaxDeliveries) \cup {DenseDeliveries, CrowdedDeliveries}

InitLoads ==
    /\ prog = "loads"
    /\ callNo = 1
    /\ firstResult = LoadPending
    /\ vehicles \in VehicleLists
    /\ deliveries \in DeliveryLists
    /\ lpc = "call"
    /\ LoadLocalsFresh
    /\ edges = <<>> /\ start = "A" /\ end = "A" /\ battery = 100
    /\ graph = EmptyGraph /\ destLat = 0 /\ rpc = "idle" /\ mode = 1
    /\ open = <<>> /\ visited = {} /\ pushed = <<>> /\ routes = NoRoutes
    /\ planResult = PlanPending /\ par = ParIdle /\ cost = NoCost

----------------------------------------------------------------------------
(* LoadMatcher: matchLoads and buildBestBundleForVehicle *)
RECURSIVE FilterOpenAnyStatus(_)
\* variant for comparison: the status of a delivery is not tested
FilterOpenAnyStatus(ds) ==
    IF ds = <<>> THEN <<>>
    ELSE IF Head(ds).finite
         THEN <<Head(ds)>> \o FilterOpenAnyStatus(Tail(ds))
         ELSE FilterOpenAnyStatus(Tail(ds))

RECURSIVE FilterOpen(_)
\* deliveries.filter(d => d.status === 'pending' && the four coordinates are finite)
FilterOpen(ds) ==
    IF ds = <<>> THEN <<>>
    ELSE IF Head(ds).status = "pending" /\ Head(ds).finite
         THEN <<Head(ds)>> \o FilterOpen(Tail(ds))
         ELSE FilterOpen(Tail(ds))

\* the locals of buildBestBundleForVehicle for the vehicle the map is at
vehicle == vehicles[vIdx]
vehiclePoint == vehicle.lat
availableCapacity == AvailableCapacity(vehicle)
candidates == pickVehicleCandidates(vehiclePoint, openDeliveries)
traffic == getTrafficAwareWeights(vehicle, vehicles)
savingsMatrix == buildSavingsMatrix(vehiclePoint, candidates, traffic.trafficFactor)
seeds == SeedsOf(vehiclePoint, candidates)

Ids(bundle) == [k \in 1..Len(bundle) |-> bundle[k].id]

\* candidates.filter((c) => !currentBundle.some((b) => b.id === c.id))
Remaining(cands, bundle) ==
    LET NotInBundle(c) == \A k \in 1..Len(bundle) : bundle[k].id # c.id
    IN SelectSeq(cands, NotInBundle)

\* the sum of the pair savings of candidate with the members of bundle, in
\* thousandths of a km
PairSavingsSum(matrix, bundle, candidate) ==
    SumSeq([k \in 1..Len(bundle) |-> pairSavings(matrix, bundle[k].id, candidate.id)])

RECURSIVE PickBestNextUnboosted(_, _, _, _, _, _, _)
\* variant for comparison: the evaluation kept for the best candidate carries the
\* composite score of the expanded bundle, without the bonus
PickBestNextUnboosted(remaining, bundle, best, veh, trf, matrix, avail) ==
    IF remaining = <<>> THEN best
    ELSE LET candidate == Head(remaining)
             expanded == addDeliveryIfFits(bundle, candidate, avail)
             savingsSum == PairSavingsSum(matrix, bundle, candidate)
             divisor == Max2(1, Len(bundle)) * BONUS_DIVISOR
             capped == savingsSum >= BONUS_CAP_1000 * divisor
             expandedEval == evaluateBundleScore(expanded, veh, veh.lat, trf.weights, trf.trafficFactor)
             boosted == expandedEval.score * divisor
                        + (IF capped THEN BONUS_CAP_1000 * divisor ELSE savingsSum)
         IN IF expanded = <<>>
            THEN PickBestNextUnboosted(Tail(remaining), bundle, best, veh, trf, matrix, avail)
            ELSE IF boosted > (best.eval.score + GROWTH_THRESHOLD_1000) * divisor
            THEN PickBestNextUnboosted(Tail(remaining), bundle,
                                       [next |-> <<candidate>>, eval |-> expandedEval],
                                       veh, trf, matrix, avail)
            ELSE PickBestNextUnboosted(Tail(remaining), bundle, best, veh, trf, matrix, avail)

RECURSIVE PickBestNext(_, _, _, _, _, _, _)
\* remaining.forEach of the growth loop; best is [next, eval], next <<>> for null
PickBestNext(remaining, bundle, best, veh, trf, matrix, avail) ==
    IF remaining = <<>> THEN best
    ELSE LET candidate == Head(remaining)
             expanded == addDeliveryIfFits(bundle, candidate, avail)
             \* pairBonus / 20 = savingsSum / divisor, in thousandths
             savingsSum == PairSavingsSum(matrix, bundle, candidate)
             divisor == Max2(1, Len(bundle)) * BONUS_DIVISOR
             capped == savingsSum >= BONUS_CAP_1000 * divisor
             expandedEval == evaluateBundleScore(expanded, veh, veh.lat, trf.weights, trf.trafficFactor)
             \* boostedScore * divisor
             boosted == expandedEval.score * divisor
                        + (IF capped THEN BONUS_CAP_1000 * divisor ELSE savingsSum)
             \* Math.round(boostedScore * 1000)
             rounded == expandedEval.score
                        + (IF capped THEN BONUS_CAP_1000 ELSE RoundDiv(savingsSum, divisor))
         IN IF expanded = <<>>
            THEN PickBestNext(Tail(remaining), bundle, best, veh, trf, matrix, avail)
            ELSE IF boosted > (best.eval.score + GROWTH_THRESHOLD_1000) * divisor
            THEN PickBestNext(Tail(remaining), bundle,
                              [next |-> <<candidate>>,
                               eval |-> [expandedEval EXCEPT !.score = rounded]],
                              veh, trf, matrix, avail)
            ELSE PickBestNext(Tail(remaining), bundle, best, veh, trf, matrix, avail)

\* bestNext and bestNextEval after one pass of the growth loop
BestNext ==
    PickBestNext(Remaining(candidates, currentBundle), currentBundle,
                 [next |-> <<>>, eval |-> currentEval],
                 vehicle, traffic, savingsMatrix, availableCapacity)

MakeSuggestion(veh, bundle, ev) ==
    [vehicleId |-> veh.id, deliveryIds |-> Ids(bundle), orders |-> bundle,
     route |-> ev.routeCoordinates, distanceKm |-> ev.routeDistanceKm,
     durationMin |-> ev.durationMin, savingsKm |-> ev.savingsKm,
     savingsRatio |-> ev.savingsRatio, score |-> ev.score, utilization |-> ev.utilization]

RECURSIVE InsertByScoreAscending(_, _)
\* variant for comparison: the comparator is a.score - b.score
InsertByScoreAscending(s, x) ==
    IF s = <<>> THEN <<x>>
    ELSE IF Head(s).score <= x.score
         THEN <<Head(s)>> \o InsertByScoreAscending(Tail(s), x)
         ELSE <<x>> \o s

RECURSIVE InsertByScore(_, _)
InsertByScore(s, x) ==
    IF s = <<>> THEN <<x>>
    ELSE IF Head(s).score >= x.score
         THEN <<Head(s)>> \o InsertByScore(Tail(s), x)
         ELSE <<x>> \o s

RECURSIVE SortByScore(_)
\* Array.prototype.sort with (a, b) => b.score - a.score: stable, descending
SortByScore(s) ==
    IF s = <<>> THEN <<>>
    ELSE InsertByScore(SortByScore(SubSeq(s, 1, Len(s) - 1)), s[Len(s)])

RECURSIVE Flatten(_)
\* .filter(item => item !== null) on a list of options
Flatten(s) == IF s = <<>> THEN <<>> ELSE Head(s) \o Flatten(Tail(s))

\* variant for comparison: the position of the vehicle is not tested
ReturnsNullEarlyAnyPoint(veh, ds) ==
    \/ AvailableCapacity(veh) <= 0
    \/ Len(pickVehicleCandidates(veh.lat, ds)) = 0

\* buildBestBundleForVehicle returns null before building anything
ReturnsNullEarly(veh, ds) ==
    \/ ~HasPoint(veh)
    \/ AvailableCapacity(veh) <= 0
    \/ Len(pickVehicleCandidates(veh.lat, ds)) = 0

EmptyResult == [kind |-> "result", clusters |-> <<>>, suggestions |-> <<>>,
                tripsAvoided |-> 0, fuelSaved |-> 0, costSaved |-> 0]

\* variant for comparison: fuelSaved is cut to one decimal instead of rounded
MakeResultTruncated(unique) ==
    LET groupedTrips == SumSeq([k \in 1..Len(unique) |-> Len(unique[k].deliveryIds)])
        totalSavingsKm == SumSeq([k \in 1..Len(unique) |-> unique[k].savingsKm])
        fuelSaved == (totalSavingsKm * FUEL_PER_KM_100) \div 100
    IN [kind |-> "result",
        clusters |-> [k \in 1..Len(unique) |->
                         [vehicleId |-> unique[k].vehicleId, orders |-> unique[k].orders,
                          utilization |-> unique[k].utilization]],
        suggestions |-> unique,
        tripsAvoided |-> Max2(0, groupedTrips - Len(unique)),
        fuelSaved |-> fuelSaved,
        costSaved |-> RoundDiv(fuelSaved * FUEL_PRICE, 10)]

\* the aggregates of matchLoads; fuelSaved in tenths
MakeResult(unique) ==
    LET groupedTrips == SumSeq([k \in 1..Len(unique) |-> Len(unique[k].deliveryIds)])
        totalSavingsKm == SumSeq([k \in 1..Len(unique) |-> unique[k].savingsKm])   \* tenths
        fuelSaved == RoundDiv(totalSavingsKm * FUEL_PER_KM_100, 100)
    IN [kind |-> "result",
        clusters |-> [k \in 1..Len(unique) |->
                         [vehicleId |-> unique[k].vehicleId, orders |-> unique[k].orders,
                          utilization |-> unique[k].utilization]],
        suggestions |-> unique,
        tripsAvoided |-> Max2(0, groupedTrips - Len(unique)),
        fuelSaved |-> fuelSaved,
        costSaved |-> RoundDiv(fuelSaved * FUEL_PRICE, 10)]

----------------------------------------------------------------------------
(* LoadMatcher: the steps of matchLoads *)
\* matchLoads: no open delivery or no vehicle, return the empty result
MatchEmpty ==
    /\ prog = "loads" /\ lpc = "call"
    /\ ~(Len(FilterOpen(deliveries)) # 0 /\ Len(vehicles) # 0)
    /\ openDeliveries' = FilterOpen(deliveries)
    /\ loadResult' = EmptyResult
    /\ lpc' = "done"
    /\ UNCHANGED <<callVars, routeVars, loadInputs, vIdx, mapped, bundleVars, assignVars>>

\* variant for comparison: the deliveries that are not open are removed from the
\* caller's array
MatchBeginInPlace ==
    /\ prog = "loads" /\ lpc = "call"
    /\ Len(FilterOpen(deliveries)) # 0 /\ Len(vehicles) # 0
    /\ openDeliveries' = FilterOpen(deliveries)
    /\ deliveries' = FilterOpen(deliveries)
    /\ vIdx' = 1
    /\ mapped' = <<>>
    /\ lpc' = "vehicle"
    /\ UNCHANGED <<callVars, routeVars, vehicles, bundleVars, assignVars, loadResult>>

\* matchLoads: filter the deliveries and start vehicles.map
MatchBegin ==
    /\ prog = "loads" /\ lpc = "call"
    /\ Len(FilterOpen(deliveries)) # 0 /\ Len(vehicles) # 0
    /\ openDeliveries' = FilterOpen(deliveries)
    /\ vIdx' = 1
    /\ mapped' = <<>>
    /\ lpc' = "vehicle"
    /\ UNCHANGED <<callVars, routeVars, loadInputs, bundleVars, assignVars, loadResult>>

\* buildBestBundleForVehicle: no point, no available capacity or no candidate, return
\* null
VehicleSkip ==
    /\ prog = "loads" /\ lpc = "vehicle"
    /\ vIdx <= Len(vehicles)
    /\ ReturnsNullEarly(vehicle, openDeliveries)
    /\ mapped' = Append(mapped, <<>>)
    /\ vIdx' = vIdx + 1
    /\ UNCHANGED <<callVars, routeVars, loadInputs, lpc, openDeliveries, bundleVars,
                   assignVars, loadResult>>

\* buildBestBundleForVehicle up to seeds.forEach
VehicleBegin ==
    /\ prog = "loads" /\ lpc = "vehicle"
    /\ vIdx <= Len(vehicles)
    /\ ~ReturnsNullEarly(vehicle, openDeliveries)
    /\ bestSuggestion' = <<>>
    /\ grown' = <<>>
    /\ seedIdx' = 1
    /\ lpc' = "seed"
    /\ UNCHANGED <<callVars, routeVars, loadInputs, openDeliveries, vIdx, mapped,
                   currentBundle, currentEval, expand, assignVars, loadResult>>

\* seeds.forEach: the seed does not fit the available capacity
SeedSkip ==
    /\ prog = "loads" /\ lpc = "seed"
    /\ seedIdx <= Len(seeds)
    /\ addDeliveryIfFits(<<>>, seeds[seedIdx], availableCapacity) = <<>>
    /\ currentBundle' = <<>>
    /\ seedIdx' = seedIdx + 1
    /\ UNCHANGED <<callVars, routeVars, loadInputs, lpc, openDeliveries, vIdx, mapped,
                   currentEval, expand, bestSuggestion, grown, assignVars, loadResult>>

\* seeds.forEach: the bundle of the seed alone and its evaluation
SeedBegin ==
    /\ prog = "loads" /\ lpc = "seed"
    /\ seedIdx <= Len(seeds)
    /\ addDeliveryIfFits(<<>>, seeds[seedIdx], availableCapacity) # <<>>
    /\ currentBundle' = addDeliveryIfFits(<<>>, seeds[seedIdx], availableCapacity)
    /\ currentEval' = evaluateBundleScore(currentBundle', vehicle, vehiclePoint,
                                          traffic.weights, traffic.trafficFactor)
    /\ expand' = TRUE
    /\ lpc' = "grow"
    /\ UNCHANGED <<callVars, routeVars, loadInputs, openDeliveries, vIdx, mapped, seedIdx,
                   bestSuggestion, grown, assignVars, loadResult>>

\* variant for comparison: the loop tests the flag only
GrowingUncapped == expand

\* while (expand && currentBundle.length < MAX_BUNDLE_SIZE)
Growing == expand /\ Len(currentBundle) < MAX_BUNDLE_SIZE

\* growth loop: the best candidate improves the score by more than the threshold
GrowAdd ==
    /\ prog = "loads" /\ lpc = "grow"
    /\ Growing
    /\ BestNext.next # <<>>
    /\ currentBundle' = currentBundle \o BestNext.next
    /\ currentEval' = BestNext.eval
    /\ UNCHANGED <<callVars, routeVars, loadInputs, lpc, openDeliveries, vIdx, mapped,
                   seedIdx, expand, bestSuggestion, grown, assignVars, loadResult>>

\* growth loop: no candidate improves the score
GrowStop ==
    /\ prog = "loads" /\ lpc = "grow"
    /\ Growing
    /\ BestNext.next = <<>>
    /\ expand' = FALSE
    /\ UNCHANGED <<callVars, routeVars, loadInputs, lpc, openDeliveries, vIdx, mapped,
                   seedIdx, currentBundle, currentEval, bestSuggestion, grown, assignVars,
                   loadResult>>

\* variant for comparison: a later seed replaces the best on an equal score
SeedEndLaterWins ==
    /\ prog = "loads" /\ lpc = "grow"
    /\ ~Growing
    /\ LET suggestion == MakeSuggestion(vehicle, currentBundle, currentEval)
       IN bestSuggestion' =
              IF bestSuggestion = <<>> THEN <<suggestion>>
              ELSE IF suggestion.score >= bestSuggestion[1].score THEN <<suggestion>>
              ELSE bestSuggestion
    /\ grown' = Append(grown, MakeSuggestion(vehicle, currentBundle, currentEval))
    /\ seedIdx' = seedIdx + 1
    /\ lpc' = "seed"
    /\ UNCHANGED <<callVars, routeVars, loadInputs, openDeliveries, vIdx, mapped,
                   currentBundle, currentEval, expand, assignVars, loadResult>>

\* seeds.forEach after the growth loop: keep the suggestion if it beats the best
SeedEnd ==
    /\ prog = "loads" /\ lpc = "grow"
    /\ ~Growing
    /\ LET suggestion == MakeSuggestion(vehicle, currentBundle, currentEval)
       IN bestSuggestion' =
              IF bestSuggestion = <<>> THEN <<suggestion>>
              ELSE IF suggestion.score > bestSuggestion[1].score THEN <<suggestion>>
              ELSE bestSuggestion
    /\ grown' = Append(grown, MakeSuggestion(vehicle, currentBundle, currentEval))
    /\ seedIdx' = seedIdx + 1
    /\ lpc' = "seed"
    /\ UNCHANGED <<callVars, routeVars, loadInputs, openDeliveries, vIdx, mapped,
                   currentBundle, currentEval, expand, assignVars, loadResult>>

\* buildBestBundleForVehicle: return bestSuggestion
VehicleEnd ==
    /\ prog = "loads" /\ lpc = "seed"
    /\ seedIdx > Len(seeds)
    /\ mapped' = Append(mapped, bestSuggestion)
    /\ vIdx' = vIdx + 1
    /\ lpc' = "vehicle"
    /\ UNCHANGED <<callVars, routeVars, loadInputs, openDeliveries, bundleVars, assignVars,
                   loadResult>>

\* variant for comparison: the set of assigned ids outlives the call
RankStaleAssigned ==
    /\ prog = "loads" /\ lpc = "vehicle"
    /\ vIdx > Len(vehicles)
    /\ suggestions' = SortByScore(Flatten(mapped))
    /\ uniqueSuggestions' = <<>>
    /\ sIdx' = 1
    /\ lpc' = "accept"
    /\ UNCHANGED <<callVars, routeVars, loadInputs, openDeliveries, vIdx, mapped,
                   bundleVars, loadResult, assignedDeliveryIds>>

\* matchLoads: drop the nulls and sort the suggestions by score, descending
Rank ==
    /\ prog = "loads" /\ lpc = "vehicle"
    /\ vIdx > Len(vehicles)
    /\ suggestions' = SortByScore(Flatten(mapped))
    /\ assignedDeliveryIds' = {}
    /\ uniqueSuggestions' = <<>>
    /\ sIdx' = 1
    /\ lpc' = "accept"
    /\ UNCHANGED <<callVars, routeVars, loadInputs, openDeliveries, vIdx, mapped,
                   bundleVars, loadResult>>

\* variant for comparison: a collision only when every delivery of the suggestion is taken
hasCollisionEvery(suggestion, assigned) ==
    \A k \in 1..Len(suggestion.deliveryIds) : suggestion.deliveryIds[k] \in assigned

hasCollision(suggestion, assigned) ==
    \E k \in 1..Len(suggestion.deliveryIds) : suggestion.deliveryIds[k] \in assigned

\* variant for comparison: a suggestion that shares a delivery is accepted without the
\* deliveries taken when some delivery is left, and skipped otherwise
AcceptSkipTrimmed ==
    /\ prog = "loads" /\ lpc = "accept"
    /\ sIdx <= Len(suggestions)
    /\ hasCollision(suggestions[sIdx], assignedDeliveryIds)
    /\ LET Free(d) == d.id \notin assignedDeliveryIds
           left == SelectSeq(suggestions[sIdx].orders, Free)
       IN IF left = <<>>
          THEN UNCHANGED <<assignedDeliveryIds, uniqueSuggestions>>
          ELSE /\ assignedDeliveryIds' = assignedDeliveryIds \cup Range(Ids(left))
               /\ uniqueSuggestions' =
                     Append(uniqueSuggestions,
                            [suggestions[sIdx] EXCEPT !.orders = left, !.deliveryIds = Ids(left)])
    /\ sIdx' = sIdx + 1
    /\ UNCHANGED <<callVars, routeVars, loadInputs, lpc, openDeliveries, vIdx, mapped,
                   bundleVars, suggestions, loadResult>>

\* suggestions.forEach: the suggestion shares a delivery with an accepted one
AcceptSkip ==
    /\ prog = "loads" /\ lpc = "accept"
    /\ sIdx <= Len(suggestions)
    /\ hasCollision(suggestions[sIdx], assignedDeliveryIds)
    /\ sIdx' = sIdx + 1
    /\ UNCHANGED <<callVars, routeVars, loadInputs, lpc, openDeliveries, vIdx, mapped,
                   bundleVars, suggestions, assignedDeliveryIds, uniqueSuggestions,
                   loadResult>>

\* suggestions.forEach: accept the suggestion
Accept ==
    /\ prog = "loads" /\ lpc = "accept"
    /\ sIdx <= Len(suggestions)
    /\ ~hasCollision(suggestions[sIdx], assignedDeliveryIds)
    /\ assignedDeliveryIds' = assignedDeliveryIds \cup Range(suggestions[sIdx].deliveryIds)
    /\ uniqueSuggestions' = Append(uniqueSuggestions, suggestions[sIdx])
    /\ sIdx' = sIdx + 1
    /\ UNCHANGED <<callVars, routeVars, loadInputs, lpc, openDeliveries, vIdx, mapped,
                   bundleVars, suggestions, loadResult>>

\* matchLoads: the clusters and the aggregates, return
Aggregate ==
    /\ prog = "loads" /\ lpc = "accept"
    /\ sIdx > Len(suggestions)
    /\ loadResult' = MakeResult(uniqueSuggestions)
    /\ lpc' = "done"
    /\ UNCHANGED <<callVars, routeVars, loadInputs, openDeliveries, vIdx, mapped,
                   bundleVars, assignVars>>

\* the caller keeps the result and calls matchLoads again with the same arguments
MatchAgain ==
    /\ prog = "loads" /\ lpc = "done" /\ callNo = 1
    /\ firstResult' = loadResult
    /\ callNo' = 2
    /\ loadResult' = LoadPending
    /\ lpc' = "call"
    /\ UNCHANGED <<prog, routeVars, loadInputs, openDeliveries, vIdx, mapped, bundleVars,
                   assignVars>>

NextLoads ==
    \/ MatchEmpty
    \/ MatchBegin
    \/ VehicleSkip
    \/ VehicleBegin
    \/ SeedSkip
    \/ SeedBegin
    \/ GrowAdd
    \/ GrowStop
    \/ SeedEnd
    \/ VehicleEnd
    \/ Rank
    \/ AcceptSkip
    \/ Accept
    \/ Aggregate
    \/ MatchAgain

SpecLoads == InitLoads /\ [][NextLoads]_vars

Init == InitRoute \/ InitLoads
Next == NextRoute \/ NextLoads
Spec == Init /\ [][Next]_vars

----------------------------------------------------------------------------
(* Load consolidation: what the claims speak about *)
VehicleById(id) == CHOOSE v \in Range(vehicles) : v.id = id

\* the sum of the weights of the deliveries of a bundle, as given
RawWeight(bundle) == SumSeq([k \in 1..Len(bundle) |-> bundle[k].weight])

WithinCapacity(veh, bundle) == RawWeight(bundle) <= veh.capacity - veh.current_load

\* every suggestion matchLoads holds at this point, accepted or not
AllSuggestions ==
    Range(Flatten(mapped)) \cup Range(bestSuggestion) \cup Range(suggestions)
        \cup Range(uniqueSuggestions) \cup Range(loadResult.suggestions)

SharesDelivery(a, b) == Range(a.deliveryIds) \cap Range(b.deliveryIds) # {}

\* C1: no delivery id occurs in the deliveryIds of two different accepted suggestions,
\* neither while matchLoads accepts nor in the result it returns.
C1_AcceptedDisjoint ==
    /\ \A i, j \in 1..Len(uniqueSuggestions) :
          i # j => ~SharesDelivery(uniqueSuggestions[i], uniqueSuggestions[j])
    /\ \A i, j \in 1..Len(loadResult.suggestions) :
          i # j => ~SharesDelivery(loadResult.suggestions[i], loadResult.suggestions[j])

\* matchLoads returned two suggestions after rejecting a third one
C1_Witness ==
    /\ lpc = "done"
    /\ Len(loadResult.suggestions) >= 2
    /\ Len(suggestions) > Len(loadResult.suggestions)

\* C2: the weights of the deliveries of a bundle sum to at most capacity minus
\* current_load of its vehicle, after the seed step, after every growth step and in
\* every suggestion.
C2_BundleWithinCapacity ==
    /\ lpc = "grow" => WithinCapacity(vehicle, currentBundle)
    /\ \A sg \in AllSuggestions : WithinCapacity(VehicleById(sg.vehicleId), sg.orders)

\* the scenario of the spec: v1 (capacity 10, load 0) with the deliveries of weight 4
\* and 8 in reach got a suggestion, which holds one of the two
C2_Witness ==
    /\ lpc = "done"
    /\ \E k \in 1..Len(vehicles) : vehicles[k].id = "v1"
    /\ {"d1", "d2"} \subseteq Range(Ids(deliveries))
    /\ \E sg \in Range(loadResult.suggestions) :
          /\ sg.vehicleId = "v1"
          /\ Cardinality(Range(sg.deliveryIds) \cap {"d1", "d2"}) = 1

RECURSIVE FilterPendingOrAssigned(_)
\* the deliveries with status pending or assigned and finite coordinates
FilterPendingOrAssigned(ds) ==
    IF ds = <<>> THEN <<>>
    ELSE IF Head(ds).status \in {"pending", "assigned"} /\ Head(ds).finite
         THEN <<Head(ds)>> \o FilterPendingOrAssigned(Tail(ds))
         ELSE FilterPendingOrAssigned(Tail(ds))

\* C8: the deliveries matchLoads bundles are exactly those with status pending or
\* assigned and four finite coordinates, and no other delivery appears in a suggestion.
C8_PendingOrAssignedEligible ==
    /\ lpc \notin {"idle", "call"} => openDeliveries = FilterPendingOrAssigned(deliveries)
    /\ \A sg \in AllSuggestions : \A k \in 1..Len(sg.orders) :
          sg.orders[k].status \in {"pending", "assigned"} /\ sg.orders[k].finite

IsAccepted(sg) == sg \in Range(uniqueSuggestions)

ScoresDescend(sgs) == \A i, j \in 1..Len(sgs) : i < j => sgs[i].score >= sgs[j].score

\* C10: the suggestions are taken in order of non-increasing score and one is accepted
\* exactly when it shares no delivery with a suggestion accepted before it; so the
\* accepted suggestions are in non-increasing score order and every rejected one shares
\* a delivery with an accepted suggestion of at least its score.
C10_GreedyByScore ==
    lpc \in {"accept", "done"} =>
        /\ ScoresDescend(suggestions)
        /\ ScoresDescend(uniqueSuggestions)
        /\ lpc = "done" => loadResult.suggestions = uniqueSuggestions
        /\ \A k \in 1..Len(suggestions) : k < sIdx =>
              /\ IsAccepted(suggestions[k]) <=>
                    ~\E j \in 1..(k - 1) :
                        IsAccepted(suggestions[j]) /\ SharesDelivery(suggestions[j], suggestions[k])
              /\ ~IsAccepted(suggestions[k]) =>
                    \E a \in Range(uniqueSuggestions) :
                        SharesDelivery(a, suggestions[k]) /\ a.score >= suggestions[k].score

\* matchLoads returned after rejecting a suggestion of a lower score than the accepted
\* one it collides with
C10_Witness ==
    /\ lpc = "done"
    /\ \E k \in 1..Len(suggestions) :
          /\ ~IsAccepted(suggestions[k])
          /\ \E a \in Range(loadResult.suggestions) :
                SharesDelivery(a, suggestions[k]) /\ a.score > suggestions[k].score

\* C9: a second call with the same arguments returns what the first call returned, for
\* runSmartRouteRealtime and for matchLoads.
C9_SameResultOnRepeat ==
    /\ (prog = "route" /\ callNo = 2 /\ rpc = "done") => planResult = firstResult
    /\ (prog = "loads" /\ callNo = 2 /\ lpc = "done") => loadResult = firstResult

\* the second call of matchLoads returned suggestions, one of them rejected on the way
C9_Witness ==
    /\ prog = "loads" /\ callNo = 2 /\ lpc = "done"
    /\ Len(loadResult.suggestions) >= 1
    /\ Len(suggestions) > Len(loadResult.suggestions)

\* a delivery matchLoads keeps whose pickup lies within the pickup radius of veh
InReach(veh, d) ==
    /\ d.status = "pending" /\ d.finite
    /\ Abs(d.from_lat - veh.lat) <= MAX_PICKUP_RADIUS_KM

NoPosition(veh) == ~veh.located
NoCapacity(veh) == veh.capacity - veh.current_load <= 0
NothingInReach(veh) == ~\E k \in 1..Len(deliveries) : InReach(veh, deliveries[k])

\* C11: a vehicle without available capacity, without a valid position or without a
\* delivery to bundle within the pickup radius is the vehicle of no suggestion, and
\* buildBestBundleForVehicle goes on to the next vehicle when it meets one.
C11_SkippedVehicleNeverSuggested ==
    /\ \A sg \in AllSuggestions :
          LET veh == VehicleById(sg.vehicleId)
          IN ~NoPosition(veh) /\ ~NoCapacity(veh) /\ ~NothingInReach(veh)
    /\ (prog = "loads" /\ lpc = "vehicle" /\ vIdx <= Len(vehicles)
            /\ (NoPosition(vehicle) \/ NoCapacity(vehicle) \/ NothingInReach(vehicle)))
          => ENABLED VehicleSkip

\* matchLoads returned a suggestion although the list held a vehicle of each of the
\* three kinds
C11_Witness ==
    /\ lpc = "done"
    /\ Len(loadResult.suggestions) >= 1
    /\ \E k \in 1..Len(vehicles) : NoPosition(vehicles[k])
    /\ \E k \in 1..Len(vehicles) : ~NoPosition(vehicles[k]) /\ NoCapacity(vehicles[k])
    /\ \E k \in 1..Len(vehicles) :
          ~NoPosition(vehicles[k]) /\ ~NoCapacity(vehicles[k]) /\ NothingInReach(vehicles[k])


\* no delivery of the list is one matchLoads keeps
NoOpenDelivery == ~\E k \in 1..Len(deliveries) : deliveries[k].status = "pending" /\ deliveries[k].finite

\* C12: with an empty vehicle list or without a delivery to bundle, matchLoads returns
\* no suggestion, no cluster and tripsAvoided = fuelSaved = costSaved = 0.
C12_EmptyInputEmptyResult ==
    (prog = "loads" /\ lpc = "done" /\ (Len(vehicles) = 0 \/ NoOpenDelivery)) =>
        /\ loadResult.kind = "result"
        /\ loadResult.suggestions = <<>>
        /\ loadResult.clusters = <<>>
        /\ loadResult.tripsAvoided = 0
        /\ loadResult.fuelSaved = 0
        /\ loadResult.costSaved = 0

\* matchLoads returned for a vehicle with room and deliveries in reach of which none is
\* pending
C12_Witness ==
    /\ prog = "loads" /\ lpc = "done"
    /\ \E k \in 1..Len(vehicles) : vehicles[k].id = "v1"
    /\ \E k \in 1..Len(deliveries) : deliveries[k].id = "d9"
    /\ NoOpenDelivery
    /\ loadResult.suggestions = <<>>


----------------------------------------------------------------------------
(* Route planner: termination of runAStar *)
EdgeIds(es) == {es[k].id : k \in 1..Len(es)}
NoDuplicates(sq) == \A i, j \in 1..Len(sq) : i # j => sq[i] # sq[j]

\* the number of states the running search has popped: the start state and one state per
\* enqueued edge went in, Len(open) are still there
Popped == 1 + Len(pushed) - Len(open)

\* the frontier received at most one state per edge of the list, plus the start state
FrontierBounded ==
    rpc = "loop" =>
        /\ NoDuplicates(pushed)
        /\ Range(pushed) \subseteq EdgeIds(edges)
        /\ Popped >= 0 /\ Popped <= Len(edges) + 1

\* an iteration of the while loop takes one state out of the frontier
IterationPops ==
    (rpc = "loop" /\ ~isEmpty(open)) =>
        Len(open') = Len(open) - 1 + (Len(pushed') - Len(pushed))

\* C13: runAStar terminates on every edge list, cycles, self-loops and edges of cost 0
\* included: the frontier receives at most one state per edge plus the start state,
\* every iteration pops one state, and every search that starts returns.
C13_AStarTerminates ==
    /\ []FrontierBounded
    /\ [][IterationPops]_vars
    /\ \A i \in 1..3 : (rpc \in {"search", "loop"} /\ mode = i) ~> Finished(i)

\* the searches returned on an edge list with a cycle through start, a self-loop and an
\* edge of cost 0, the path found going over the edge of cost 0
C13_Witness ==
    /\ rpc = "done" /\ planResult.kind = "record"
    /\ \E k \in 1..Len(edges) : edges[k].from_node = edges[k].to_node
    /\ \E k \in 1..Len(edges) : edges[k].to_node = start /\ edges[k].from_node # start
    /\ \A i \in 1..3 :
          /\ routes[i].found
          /\ \E k \in 1..Len(routes[i].path) :
                calculateEdgeCost(EdgeById(routes[i].path[k]), battery, Modes[i]) = 0

----------------------------------------------------------------------------
(* C14 *)
\* the expansions the growth loop made on the current seed: the bundle starts with
\* the seed alone and every expansion appends one delivery
Expansions == Len(currentBundle) - 1

\* what is left of the growth loop: it falls with every pass
GrowthMeasure == (MAX_BUNDLE_SIZE - Len(currentBundle)) + (IF expand THEN 1 ELSE 0)

GrowthBounded ==
    /\ lpc = "grow" =>
          /\ Expansions \in 0..(MAX_BUNDLE_SIZE - 1)
          /\ GrowthMeasure \in 0..MAX_BUNDLE_SIZE
    /\ \A sg \in AllSuggestions :
          /\ Len(sg.deliveryIds) \in 1..MAX_BUNDLE_SIZE
          /\ Len(sg.orders) = Len(sg.deliveryIds)

GrowthStep ==
    /\ (lpc = "seed" /\ lpc' = "grow") => Len(currentBundle') = 1
    /\ (lpc = "grow" /\ lpc' = "grow") =>
          /\ GrowthMeasure' < GrowthMeasure
          /\ \/ Len(currentBundle') = Len(currentBundle) + 1
             \/ currentBundle' = currentBundle /\ expand /\ ~expand'
    /\ (lpc = "grow" /\ lpc' = "seed") =>
          /\ bestSuggestion' # <<>>
          /\ \/ bestSuggestion' = bestSuggestion
             \/ bestSuggestion'[1].orders = currentBundle

\* C14: the growth loop of buildBestBundleForVehicle ends after at most
\* MAX_BUNDLE_SIZE - 1 = 3 expansions (every pass of the loop either appends one
\* delivery or clears the flag, and the loop is left at 4 deliveries), so every
\* suggestion holds at least 1 and at most 4 deliveries.
C14_GrowthLoopBounded == []GrowthBounded /\ [][GrowthStep]_vars

\* a returned suggestion of 4 deliveries although a fifth delivery in reach of the
\* vehicle would still fit its capacity
C14_Witness ==
    /\ lpc = "done" /\ loadResult.kind = "result"
    /\ \E sg \in Range(loadResult.suggestions) :
          /\ Len(sg.deliveryIds) = MAX_BUNDLE_SIZE
          /\ \E d \in Range(openDeliveries) :
                /\ d.id \notin Range(sg.deliveryIds)
                /\ InReach(VehicleById(sg.vehicleId), d)
                /\ WithinCapacity(VehicleById(sg.vehicleId), Append(sg.orders, d))

----------------------------------------------------------------------------
(* C15 *)
\* every search that has returned holds the result it has when run alone
SameAsAlone ==
    (prog = "par" /\ rpc \in {"search", "done"}) =>
        /\ \A i \in 1..3 : par.pc[i] = "returned" => par.result[i] = RunAlone(i)
        /\ (rpc = "done" /\ planResult # PlanNull) =>
               planResult = PlanRecord([i \in 1..3 |-> RunAlone(i)])

\* a step of a search changes the locals of that search only, and neither the graph
\* nor the edge list
OwnStateOnly ==
    (prog = "par" /\ rpc = "search") =>
        /\ graph' = graph /\ edges' = edges
        /\ \E i \in 1..3 :
              \A j \in (1..3) \ {i} :
                  /\ par'.pc[j] = par.pc[j]
                  /\ par'.open[j] = par.open[j]
                  /\ par'.visited[j] = par.visited[j]
                  /\ par'.result[j] = par.result[j]

\* C15: the three searches of runSmartRouteRealtime share no mutable state: a step of
\* one search leaves the graph, the edge list and the frontier and visited set of the
\* other searches unchanged, so the searches interleaved step by step in any order
\* return the same three results as each search run alone.
C15_SearchesIndependent == []SameAsAlone /\ [][OwnStateOnly]_vars

\* the three searches have returned after steps taken in turns, two of them with
\* different paths, each having visited a node
C15_Witness ==
    /\ prog = "par" /\ rpc = "done" /\ planResult.kind = "record"
    /\ \A i \in 1..3 : par.result[i].found /\ par.visited[i] # {}
    /\ planResult.fastest # planResult.greenest

----------------------------------------------------------------------------
(* C16 *)
\* the orders in which the elements of s can arrive
Orders(s) ==
    {[k \in 1..Len(s) |-> s[f[k]]] :
        f \in {g \in [1..Len(s) -> 1..Len(s)] :
                  \A a, b \in 1..Len(s) : a # b => g[a] # g[b]}}

RECURSIVE AcceptAll(_, _, _)
\* suggestions.forEach of matchLoads over sugs, from the assigned ids and the accepted
\* suggestions so far
AcceptAll(sugs, assigned, unique) ==
    IF sugs = <<>> THEN unique
    ELSE IF hasCollision(Head(sugs), assigned)
         THEN AcceptAll(Tail(sugs), assigned, unique)
         ELSE AcceptAll(Tail(sugs), assigned \cup Range(Head(sugs).deliveryIds),
                        Append(unique, Head(sugs)))

\* the accepted suggestions when the per-vehicle results arrive in the order arrived
Merge(arrived) == AcceptAll(SortByScore(arrived), {}, <<>>)

\* C16: the accepted suggestions do not depend on the order in which the per-vehicle
\* bundle searches finish: the score-descending sort and the greedy acceptance give
\* the same accepted suggestions for every order of the per-vehicle best suggestions,
\* also when two conflicting suggestions have equal scores.
C16_OrderIndependent ==
    (lpc = "done" /\ loadResult.kind = "result") =>
        \A arrived \in Orders(Flatten(mapped)) :
            Range(Merge(arrived)) = Range(loadResult.suggestions)

\* matchLoads itself merges in the order of the vehicles array
MergeIsArrayOrder ==
    (lpc = "done" /\ loadResult.kind = "result" /\ loadResult # EmptyResult) =>
        Merge(Flatten(mapped)) = loadResult.suggestions

----------------------------------------------------------------------------
(* C17 *)
\* a step leaves the arrays the caller passed, and with them every record, as they are
InputsKept == vehicles' = vehicles /\ deliveries' = deliveries /\ edges' = edges

\* what a call starts from is made by the call itself
FreshLocals ==
    /\ (lpc = "vehicle" /\ vIdx = 1) => mapped = <<>>
    /\ (lpc = "seed" /\ seedIdx = 1) => bestSuggestion = <<>>
    /\ (lpc = "accept" /\ sIdx = 1) => assignedDeliveryIds = {} /\ uniqueSuggestions = <<>>
    /\ (rpc = "search" /\ mode = 1) => routes = NoRoutes

\* a search starts from a frontier and a visited set of its own making
FreshSearch == (rpc = "search" /\ rpc' = "loop") => visited' = {} /\ Len(open') = 1

\* the second call returns what the first returned, whatever the first left behind
RepeatUnaffected ==
    /\ (callNo = 2 /\ rpc = "done") => planResult = firstResult
    /\ (callNo = 2 /\ lpc = "done") => loadResult = firstResult

\* C17: matchLoads leaves the vehicles array, the deliveries array and every record in
\* them unchanged, runSmartRouteRealtime leaves the edge list and every edge unchanged,
\* and no state survives from one call to the next.
C17_InputsUntouched == [][InputsKept /\ FreshSearch]_vars /\ [](FreshLocals /\ RepeatUnaffected)

\* matchLoads returned suggestions twice on a deliveries array of which it dropped an
\* element and took the rest in another order for some vehicle
C17_Witness ==
    /\ prog = "loads" /\ callNo = 2 /\ lpc = "done"
    /\ loadResult.suggestions # <<>>
    /\ openDeliveries # deliveries
    /\ \E k \in 1..Len(vehicles) :
          /\ ~ReturnsNullEarly(vehicles[k], openDeliveries)
          /\ Len(pickVehicleCandidates(vehicles[k].lat, openDeliveries)) = Len(openDeliveries)
          /\ pickVehicleCandidates(vehicles[k].lat, openDeliveries) # openDeliveries

----------------------------------------------------------------------------
(* C18 *)
\* the deliveries matchLoads keeps whose pickup is nearer to veh than that of d
NearerThan(veh, d) ==
    {j \in 1..Len(deliveries) :
        /\ deliveries[j].status = "pending" /\ deliveries[j].finite
        /\ Abs(deliveries[j].from_lat - veh.lat) < Abs(d.from_lat - veh.lat)}

AmongNearest(veh, d) == Cardinality(NearerThan(veh, d)) < MAX_CANDIDATES_PER_VEHICLE

----------------------------------------------------------------------------
(* C19 *)
\* the deliveries of the accepted suggestions of the result
DeliveriesGrouped ==
    SumSeq([k \in 1..Len(loadResult.suggestions) |-> Len(loadResult.suggestions[k].deliveryIds)])

\* the sum of the savingsKm of the accepted suggestions of the result, in tenths of a km
SavingsTotal ==
    SumSeq([k \in 1..Len(loadResult.suggestions) |-> loadResult.suggestions[k].savingsKm])

\* C19: in every ConsolidationResult tripsAvoided is the number of deliveries in the
\* accepted suggestions minus the number of accepted suggestions, and not negative;
\* fuelSaved is the sum of their savingsKm times 0.12, rounded to one decimal (tenths
\* f with f - 1/2 <= 1.2 * km < f + 1/2); costSaved is fuelSaved times 100, an integer.
C19_Aggregates ==
    (lpc = "done" /\ loadResult.kind = "result") =>
        /\ loadResult.tripsAvoided = DeliveriesGrouped - Len(loadResult.suggestions)
        /\ loadResult.tripsAvoided >= 0
        /\ 100 * loadResult.fuelSaved - 12 * SavingsTotal <= 50
        /\ 100 * loadResult.fuelSaved - 12 * SavingsTotal > -50
        /\ loadResult.costSaved = loadResult.fuelSaved * 10

\* two accepted suggestions, a trip avoided, and a fuel saving that rounding moved up
C19_Witness ==
    /\ lpc = "done" /\ loadResult.kind = "result"
    /\ Len(loadResult.suggestions) >= 2
    /\ loadResult.tripsAvoided >= 1
    /\ 100 * loadResult.fuelSaved > 12 * SavingsTotal

----------------------------------------------------------------------------
(* C20 *)
\* the edge is one the cost function is specified for
InCostDomain(edge) ==
    /\ edge.distance >= 0
    /\ edge.congestion >= 0 /\ edge.congestion <= 10
    /\ edge.aqi >= 0 /\ edge.aqi <= 500

\* C20: for an edge with distance >= 0, congestion in [0, 1] and AQI in [0, 500],
\* calculateEdgeCost is >= 0 in each of the three modes, for every battery value and
\* for restricted and unrestricted edges.
C20_CostNonNegative ==
    (prog = "cost" /\ cost.returned /\ InCostDomain(edges[1])) => cost.value >= 0

\* the cost of a free edge of distance 0 and AQI 0 at low battery: the least there is
C20_Witness ==
    /\ prog = "cost" /\ cost.returned /\ InCostDomain(edges[1])
    /\ edges[1].distance = 0 /\ edges[1].aqi = 0 /\ ~edges[1].restricted
    /\ battery < LowBattery
    /\ cost.value = 0

----------------------------------------------------------------------------
(* C21 *)
\* the heuristic value runAStar used for a frontier state: priority = gCost + hCost
HeuristicUsed(entry) == entry.priority - entry.item.cost

\* the frontier state was pushed for an edge (the start state is pushed with priority 0)
PushedForEdge(entry) == entry.item.path # <<>>

\* every node has one latitude in the edge list
CoordinatesAgree ==
    \A a, b \in 1..Len(edges) :
        /\ edges[a].from_node = edges[b].from_node => edges[a].from_lat = edges[b].from_lat
        /\ edges[a].to_node = edges[b].to_node => edges[a].to_lat = edges[b].to_lat
        /\ edges[a].from_node = edges[b].to_node => edges[a].from_lat = edges[b].to_lat

\* no edge is cheaper in fastest mode than the straight line between its end points
\* is long
NoEdgeBelowLine ==
    \A k \in 1..Len(edges) :
        calculateEdgeCost(edges[k], battery, "fastest")
            >= Abs(edges[k].to_lat - edges[k].from_lat) * 10

\* the heuristic value of every frontier state of the fastest search is at most the
\* least cost from its node to end
HeuristicBelowCost ==
    \A k \in 1..Len(open) :
        (PushedForEdge(open[k]) /\ end \in Reachable(edges, open[k].item.node)) =>
            HeuristicUsed(open[k]) <= MinCost(edges, open[k].item.node, end, battery, "fastest")

\* C21 as stated: in fastest mode, for every node n from which end is reachable the
\* heuristic value used for n (the haversine distance from n to the destination
\* coordinate) is at most the least total edgeCost of a path from n to end.
C21_HeuristicAdmissible ==
    (prog = "route" /\ rpc = "loop" /\ Modes[mode] = "fastest") => HeuristicBelowCost

\* C21 amended: the same, for edge lists in which every node has one latitude and no
\* edge has a fastest edgeCost below the straight-line distance between its end
\* points.
C21_HeuristicAdmissibleOnRoadData ==
    (prog = "route" /\ rpc = "loop" /\ Modes[mode] = "fastest"
        /\ CoordinatesAgree /\ NoEdgeBelowLine) => HeuristicBelowCost

\* the fastest search holds a frontier state, pushed for an edge, with a positive
\* heuristic value and a path of two edges or more left to end
C21_Witness ==
    /\ prog = "route" /\ rpc = "loop" /\ Modes[mode] = "fastest"
    /\ CoordinatesAgree /\ NoEdgeBelowLine
    /\ \E k \in 1..Len(open) :
          /\ PushedForEdge(open[k])
          /\ open[k].item.node # end
          /\ end \in Reachable(edges, open[k].item.node)
          /\ HeuristicUsed(open[k]) > 0
          /\ MinCost(edges, open[k].item.node, end, battery, "fastest") > HeuristicUsed(open[k])

----------------------------------------------------------------------------
(* C22 *)
\* the cost the specification gives an edge, in hundredths: distance and AQI are
\* whole numbers, congestion is in tenths
SpecifiedCost100(edge, bat, m) ==
    LET travelTime100 == edge.distance * (10 + edge.congestion) * 10
        carbon100 == 20 * edge.distance
        aqi100 == 100 * edge.aqi
    IN (IF bat < 25 THEN 300 * edge.distance ELSE 0)
       + (IF edge.restricted THEN 1000000 ELSE 0)
       + (CASE m = "fastest" -> 2 * travelTime100 + 50 * edge.aqi
            [] m = "greenest" -> 2 * carbon100 + aqi100
            [] m = "safest" -> 2 * aqi100 + travelTime100)

SpecifiedPathCost100(p, bat, m) ==
    SumSeq([k \in 1..Len(p) |-> SpecifiedCost100(EdgeById(p[k]), bat, m)])

\* C22: calculateEdgeCost returns batteryPenalty + restrictedPenalty plus
\* 2*travelTime + 0.5*AQI in fastest mode, 2*carbon + AQI in greenest mode and
\* 2*AQI + travelTime in safest mode, with travelTime = distance*(1+congestion),
\* carbon = 0.2*distance, batteryPenalty = 3*distance exactly when battery < 25 and
\* restrictedPenalty = 10000 exactly when the edge is restricted; the cost runAStar
\* keeps for a frontier state is the sum of these over its path, and a single
\* unrestricted edge A->B of distance 10, congestion 0, AQI 0 at battery 100 gives the
\* path [A->B] with cost 20 in fastest mode.
C22_CostFormulas ==
    /\ (prog = "cost" /\ cost.returned) =>
          10 * cost.value = SpecifiedCost100(edges[1], battery, Modes[mode])
    /\ (prog = "route" /\ rpc = "loop") =>
          \A k \in 1..Len(open) :
              10 * open[k].item.cost = SpecifiedPathCost100(open[k].item.path, battery, Modes[mode])
    /\ (prog = "route" /\ rpc = "done" /\ edges = <<EdgePool[4]>> /\ start = "A"
            /\ end = "B" /\ battery = 100) =>
          /\ planResult.fastest = Route(<<4>>)
          /\ 10 * PathCost(planResult.fastest.path, battery, "fastest") = 2000

\* the scenario of the specification has run
C22_Witness ==
    /\ prog = "route" /\ rpc = "done" /\ edges = <<EdgePool[4]>> /\ start = "A"
    /\ end = "B" /\ battery = 100
    /\ EdgePool[4].distance = 10 /\ EdgePool[4].congestion = 0 /\ EdgePool[4].aqi = 0
    /\ ~EdgePool[4].restricted
    /\ planResult.fastest.path = <<4>>

----------------------------------------------------------------------------
(* C23 *)
\* the remaining candidates that fit the available capacity together with the bundle
FittingRemaining ==
    LET FitsBundle(c) == Fits(currentBundle, c, availableCapacity)
    IN SelectSeq(Remaining(candidates, currentBundle), FitsBundle)

\* boostedScore of candidate c for the current bundle, times divisor (in thousandths)
BoostedTimes(c, divisor, trf, matrix) ==
    evaluateBundleScore(Append(currentBundle, c), vehicle, vehiclePoint, trf.weights, trf.trafficFactor).score * divisor
        + Min2(BONUS_CAP_1000 * divisor, PairSavingsSum(matrix, currentBundle, c))

GrowthDivisor == Max2(1, Len(currentBundle)) * BONUS_DIVISOR

\* the boosted scores of the fitting candidates, times GrowthDivisor
BoostedScores ==
    LET fitting == FittingRemaining
    IN [k \in 1..Len(fitting) |-> BoostedTimes(fitting[k], GrowthDivisor, traffic, savingsMatrix)]

\* the candidate at position k of fitting was appended by the step
AddedIs(fitting, k) == currentBundle' = Append(currentBundle, fitting[k])

\* a pass of the growth loop appends the fitting candidate of greatest boosted score,
\* and only if that score is more than 0.02 above the score of the bundle; it ends the
\* growth when no fitting candidate is that much better
BestIsAdded(fitting, boosted, floor) ==
    /\ (lpc = "grow" /\ lpc' = "grow" /\ currentBundle' # currentBundle) =>
          \E k \in 1..Len(fitting) :
              /\ AddedIs(fitting, k)
              /\ boosted[k] > floor
              /\ \A j \in 1..Len(fitting) : boosted[j] <= boosted[k]
    /\ (lpc = "grow" /\ lpc' = "grow" /\ expand /\ ~expand') =>
          \A j \in 1..Len(fitting) : boosted[j] <= floor

GrowthPicksBest ==
    (lpc = "grow" /\ lpc' = "grow") =>
        BestIsAdded(FittingRemaining, BoostedScores,
                    (currentEval.score + GROWTH_THRESHOLD_1000) * GrowthDivisor)

\* C23: at each growth step of buildBestBundleForVehicle the delivery added is the one
\* with the greatest boosted score among all remaining candidates that fit the
\* available capacity, added only if that boosted score exceeds the score of the
\* current bundle by more than 0.02; growth stops when no candidate does.
C23_GrowthPicksBest == [][GrowthPicksBest]_vars

----------------------------------------------------------------------------
(* C24 *)
\* the seeds buildBestBundleForVehicle takes for veh: none when it has no position
SeedsFor(veh) ==
    IF ~HasPoint(veh) THEN <<>>
    ELSE SeedsOf(veh.lat, pickVehicleCandidates(veh.lat, openDeliveries))

\* the seeds of veh that fit its available capacity on their own
FittingSeeds(veh) ==
    LET FitsAlone(d) == Fits(<<>>, d, AvailableCapacity(veh))
    IN SelectSeq(SeedsFor(veh), FitsAlone)

\* d is among the 8 candidates of veh with the nearest pickup
AmongNearestSeeds(veh, d) ==
    Cardinality({j \in 1..Len(openDeliveries) :
                    Abs(openDeliveries[j].from_lat - veh.lat) < Abs(d.from_lat - veh.lat)})
        < MAX_SEEDS

\* sg is the first of the highest score among the suggestions of built
FirstOfHighestScore(sg, built) ==
    \E k \in 1..Len(built) :
        /\ sg = built[k]
        /\ \A j \in 1..Len(built) : built[j].score <= built[k].score
        /\ \A j \in 1..(k - 1) : built[j].score < built[k].score

\* the seeds.forEach of the current vehicle has ended
SeedsDone == prog = "loads" /\ lpc = "seed" /\ seedIdx > Len(seeds)

----------------------------------------------------------------------------
(* C25 *)
\* the running search is inside its while loop with a state to pop
Popping == prog = "route" /\ rpc = "loop" /\ ~isEmpty(open)

\* visited is never made smaller while the search runs
VisitedGrows == (rpc = "loop" /\ rpc' = "loop") => visited \subseteq visited'

\* an iteration that pushes a state or marks a node expands a node that was not visited
ExpandsUnvisited ==
    (Popping /\ (pushed' # pushed \/ visited' # visited)) =>
        /\ dequeue(open).node \notin visited
        /\ visited' = visited \cup {dequeue(open).node}

\* a popped state of a visited node is dropped: nothing is pushed, nothing is marked
DiscardsVisited ==
    (Popping /\ dequeue(open).node # end /\ dequeue(open).node \in visited) =>
        open' = Tail(open) /\ pushed' = pushed /\ visited' = visited /\ rpc' = "loop"

\* every state an iteration adds to the frontier is at a node that is not visited, the
\* node being expanded included
PushesOnlyUnvisited ==
    Popping =>
        /\ \A i \in 1..Len(open') :
              (\A j \in 1..Len(open) : open[j] # open'[i]) =>
                  open'[i].item.node \notin visited'
        /\ \A k \in (Len(pushed) + 1)..Len(pushed') :
              EdgeById(pushed'[k]).to_node \notin visited'

\* the edges pushed so far leave visited nodes, each of them pushed once
PushedFromVisited ==
    rpc = "loop" =>
        /\ NoDuplicates(pushed)
        /\ \A k \in 1..Len(pushed) : EdgeById(pushed[k]).from_node \in visited

\* C25: during runAStar the visited set never shrinks, a node is expanded at most once,
\* a popped state whose node is already visited is discarded without pushing any
\* successor, and no state is pushed for an edge that enters an already visited node.
C25_VisitedGuards ==
    /\ []PushedFromVisited
    /\ [][VisitedGrows /\ ExpandsUnvisited /\ DiscardsVisited /\ PushesOnlyUnvisited]_vars

\* a state of a visited node is about to be popped, two nodes are visited, and an edge
\* from a visited node into a visited node was not pushed
C25_Witness ==
    /\ Popping
    /\ dequeue(open).node \in visited
    /\ dequeue(open).node # end
    /\ Cardinality(visited) >= 2
    /\ \E k \in 1..Len(edges) :
          /\ edges[k].from_node \in visited
          /\ edges[k].to_node \in visited
          /\ edges[k].id \notin Range(pushed)

----------------------------------------------------------------------------
(* C26 *)
\* the position of entry among the enqueue calls of the running search: 0 for the start
\* state, k for the state of the k-th edge pushed
InsertionNo(entry) ==
    IF entry.item.path = <<>> THEN 0
    ELSE CHOOSE k \in 1..Len(pushed) : pushed[k] = entry.item.path[Len(entry.item.path)]

\* a goes out of the queue before b
Before(a, b) ==
    \/ a.priority < b.priority
    \/ a.priority = b.priority /\ InsertionNo(a) < InsertionNo(b)

\* the item dequeue returns has the lowest priority of the queue and, among the items of
\* that priority, was enqueued first
DequeueIsFirstOfLowest ==
    Popping =>
        \E i \in 1..Len(open) :
            /\ open[i].item = dequeue(open)
            /\ \A j \in 1..Len(open) : j # i => Before(open[i], open[j])

\* the priority of a state pushed for an edge is f = g + h
PriorityIsF ==
    rpc = "loop" =>
        \A i \in 1..Len(open) :
            PushedForEdge(open[i]) =>
                open[i].priority = open[i].item.cost + haversine(open[i].item.lat, destLat)

\* a pop takes the item dequeue returns out of the queue and leaves the others
PopTakesDequeued ==
    Popping =>
        \A i \in 2..Len(open) : \E j \in 1..Len(open') : open'[j] = open[i]

\* C26: PriorityQueue.dequeue always returns an item whose priority is the minimum among
\* the items in the queue and, among items of equal priority, the one enqueued first;
\* every pop of runAStar takes a frontier state of lowest f = g + h, ties in insertion
\* order.
C26_DequeueLowestFirstIn ==
    /\ [](DequeueIsFirstOfLowest /\ PriorityIsF)
    /\ [][PopTakesDequeued]_vars

\* the frontier holds three states or more, two of them of equal priority, and a state
\* enqueued later stands ahead of one enqueued earlier
C26_Witness ==
    /\ Popping
    /\ Len(open) >= 3
    /\ \E i, j \in 1..Len(open) : i < j /\ open[i].priority = open[j].priority
    /\ \E i, j \in 1..Len(open) : i < j /\ InsertionNo(open[i]) > InsertionNo(open[j])

----------------------------------------------------------------------------
(* C27 *)
\* the orders in which n stops can be visited, each once
VisitOrders(n) == {f \in [1..n -> 1..n] : \A i, j \in 1..n : f[i] = f[j] => i = j}

\* stops holds the key point of every delivery of bundle once, each the nearest to the
\* stop before it among those not yet visited, the walk starting at origin
NearestFirst(origin, bundle, key, stops, n) ==
    /\ Len(stops) = n
    /\ \E f \in VisitOrders(n) :
          \A k \in 1..n :
              /\ stops[k] = StopOf(bundle[f[k]], key)
              /\ \A m \in k..n :
                    pointDistance(IF k = 1 THEN origin ELSE stops[k - 1], stops[k])
                        <= pointDistance(IF k = 1 THEN origin ELSE stops[k - 1],
                                         StopOf(bundle[f[m]], key))

\* route is the vehicle position, then the pickups of bundle, then its drops
PickupsThenDrops(route, point, bundle, n) ==
    /\ Len(route) = 1 + 2 * n
    /\ route[1] = point
    /\ NearestFirst(point, bundle, "pickup", SubSeq(route, 2, n + 1), n)
    /\ NearestFirst(route[n + 1], bundle, "drop", SubSeq(route, n + 2, 2 * n + 1), n)

\* the suggestion carries the stop list of its orders
RouteOfItsBundle(sg, vs) ==
    \E k \in 1..Len(vs) :
        /\ vs[k].id = sg.vehicleId
        /\ sg.route = simulateBundleRoute(vs[k].lat, sg.orders, getTrafficAwareWeights(vs[k], vs).trafficFactor).routeCoordinates
        /\ PickupsThenDrops(sg.route, vs[k].lat, sg.orders, Len(sg.orders))

\* C27: for every bundle simulateBundleRoute returns 1 + 2*|bundle| stops: the vehicle
\* position, then the pickup of each delivery once, then the drop of each delivery once,
\* each stop the nearest not yet visited pickup (drop) to the stop before it; the route
\* of a suggestion is this list for its final bundle.
C27_RouteStops ==
    /\ (prog = "loads" /\ lpc = "grow") =>
          /\ currentEval.routeCoordinates = simulateBundleRoute(vehiclePoint, currentBundle, traffic.trafficFactor).routeCoordinates
          /\ PickupsThenDrops(currentEval.routeCoordinates, vehiclePoint, currentBundle,
                              Len(currentBundle))
    /\ SeedsDone => \A k \in 1..Len(grown) : RouteOfItsBundle(grown[k], vehicles)
    /\ (prog = "loads" /\ lpc = "done") =>
          \A k \in 1..Len(loadResult.suggestions) :
              RouteOfItsBundle(loadResult.suggestions[k], vehicles)

\* a returned suggestion of three deliveries or more visits the pickups in another order
\* than that of its bundle, and the drops in another order than the pickups
C27_Witness ==
    /\ prog = "loads" /\ lpc = "done"
    /\ \E k \in 1..Len(loadResult.suggestions) :
          LET sg == loadResult.suggestions[k]
              n == Len(sg.orders)
          IN /\ n >= 3
             /\ \E i \in 1..n : sg.route[1 + i] # sg.orders[i].from_lat
             /\ \E i, j \in 1..n :
                   /\ sg.route[1 + i] = sg.orders[j].from_lat
                   /\ sg.route[1 + n + i] # sg.orders[j].to_lat

----------------------------------------------------------------------------
(* C28 *)
\* the path p from node s enters no node twice and never comes back to s
IsSimple(s, p) ==
    /\ \A j, k \in 1..Len(p) : j # k => EdgeById(p[j]).to_node # EdgeById(p[k]).to_node
    /\ \A k \in 1..Len(p) : EdgeById(p[k]).to_node # s

\* C28: every path returned by runAStar is simple: no node is entered by two edges of
\* the path and the start node is never re-entered, on every graph, graphs with cycles
\* and self-loops included.  The paths returned are those of frontier states, and
\* every state of the frontier has a simple path.
C28_PathsSimple ==
    /\ \A i \in 1..3 : (Finished(i) /\ routes[i].found) => IsSimple(start, routes[i].path)
    /\ rpc = "loop" => \A k \in 1..Len(open) : IsSimple(start, open[k].item.path)

\* a search returned a path of two edges or more that passes a node with a self-loop and
\* a node with an edge back to start
C28_Witness ==
    \E i \in 1..3 :
        /\ Finished(i) /\ routes[i].found
        /\ Len(routes[i].path) >= 2
        /\ \E k \in 1..Len(edges) :
              /\ edges[k].from_node = edges[k].to_node
              /\ edges[k].from_node \in PathNodes(start, routes[i].path)
        /\ \E k \in 1..Len(edges) :
              /\ edges[k].to_node = start
              /\ edges[k].from_node \in PathNodes(start, routes[i].path) \ {start, end}

----------------------------------------------------------------------------
(* C29 *)
\* matchLoads has returned
LoadsDone == prog = "loads" /\ lpc = "done"

\* the suggestion of the result made for the k-th vehicle, <<>> when there is none
AcceptedFor(k) ==
    LET ForVehicle(sg) == sg.vehicleId = vehicles[k].id
    IN SelectSeq(loadResult.suggestions, ForVehicle)

\* what buildBestBundleForVehicle returned for the k-th vehicle, <<>> for null and when
\* matchLoads returned before vehicles.map
BestFor(k) == IF k <= Len(mapped) THEN mapped[k] ELSE <<>>

\* the best bundle of the k-th vehicle was computed and is not in the result
Rejected(k) ==
    BestFor(k) # <<>> /\ \A j \in 1..Len(loadResult.suggestions) : loadResult.suggestions[j] # BestFor(k)[1]

\* the k-th vehicle has a candidate that fits its capacity and is in no accepted suggestion
HasFreeCandidate(k) ==
    \E d \in Range(pickVehicleCandidates(vehicles[k].lat, openDeliveries)) :
        /\ Fits(<<>>, d, AvailableCapacity(vehicles[k]))
        /\ d.id \notin assignedDeliveryIds

\* the bundles are computed once, before the acceptance starts
NoRecompute == lpc = "accept" => mapped' = mapped /\ suggestions' = suggestions

\* C29: matchLoads never recomputes a bundle after a conflict: each vehicle id occurs in
\* at most one accepted suggestion, every accepted suggestion is the best bundle
\* computed for its vehicle against the full eligible delivery set, and a vehicle whose
\* best bundle is rejected for sharing a delivery gets no suggestion in that result even
\* when it has other fitting candidates that no accepted suggestion uses.
C29_NoRecomputeAfterConflict ==
    /\ [](LoadsDone =>
            \A k \in 1..Len(vehicles) :
                /\ Len(AcceptedFor(k)) <= 1
                /\ AcceptedFor(k) # <<>> => AcceptedFor(k) = BestFor(k)
                /\ Rejected(k) => AcceptedFor(k) = <<>>)
    /\ [](LoadsDone =>
            \A j \in 1..Len(loadResult.suggestions) :
                \E k \in 1..Len(vehicles) : <<loadResult.suggestions[j]>> = BestFor(k))
    /\ [][NoRecompute]_vars

\* a vehicle whose best bundle was rejected has a fitting candidate that no accepted
\* suggestion uses, and another vehicle has its best bundle in the result
C29_Witness ==
    /\ LoadsDone
    /\ \E k \in 1..Len(vehicles) : Rejected(k) /\ HasFreeCandidate(k)
    /\ loadResult.suggestions # <<>>

----------------------------------------------------------------------------
(* C30 *)
\* the composite score evaluateBundleScore gives bundle on veh, in thousandths
Composite(veh, bundle, trf) ==
    evaluateBundleScore(bundle, veh, veh.lat, trf.weights, trf.trafficFactor).score

\* the sum of the pair savings of the delivery added last with the deliveries before it
LastSavingsSum(veh, bundle, trf) ==
    PairSavingsSum(buildSavingsMatrix(veh.lat, pickVehicleCandidates(veh.lat, openDeliveries), trf.trafficFactor),
                   SubSeq(bundle, 1, Len(bundle) - 1), bundle[Len(bundle)])

\* min(0.15, mean pair savings / 20) times divisor, in thousandths; mean pair savings is
\* savingsSum over the number of deliveries before the last one
BonusTimes(savingsSum, divisor) == Min2(BONUS_CAP_1000 * divisor, savingsSum)

\* score is the composite plus the bonus
IsCompositePlusBonus(score, composite, savingsSum, divisor) ==
    score * divisor = composite * divisor + BonusTimes(savingsSum, divisor)

\* score is the composite plus the bonus, rounded to three decimals
IsRoundedCompositePlusBonus(score, composite, savingsSum, divisor) ==
    score = RoundDiv(composite * divisor + BonusTimes(savingsSum, divisor), divisor)

\* the score of sg made for veh: the composite for one delivery, else Boosted of it
ScoreAsClaimed(sg, veh, trf, Boosted(_, _, _, _)) ==
    IF Len(sg.orders) = 1
    THEN sg.score = Composite(veh, sg.orders, trf)
    ELSE Boosted(sg.score, Composite(veh, sg.orders, trf),
                 LastSavingsSum(veh, sg.orders, trf),
                 (Len(sg.orders) - 1) * BONUS_DIVISOR)

\* the suggestions of sgs carry the scores claimed
ScoresAsClaimed(sgs, Boosted(_, _, _, _)) ==
    \A k \in 1..Len(sgs) :
        \E j \in 1..Len(vehicles) :
            /\ vehicles[j].id = sgs[k].vehicleId
            /\ ScoreAsClaimed(sgs[k], vehicles[j], getTrafficAwareWeights(vehicles[j], vehicles), Boosted)

\* what is compared across the seeds and ranked by the acceptance is that score
ScoresCompared(Boosted(_, _, _, _)) ==
    /\ SeedsDone =>
          /\ ScoresAsClaimed(grown, Boosted)
          /\ bestSuggestion # <<>> => FirstOfHighestScore(bestSuggestion[1], grown)
    /\ (prog = "loads" /\ lpc \in {"accept", "done"}) =>
          /\ ScoresAsClaimed(suggestions, Boosted)
          /\ ScoresDescend(suggestions)

\* C30: the score of a suggestion with a single delivery equals the composite score
\* evaluateBundleScore gives that bundle; the score of a suggestion grown beyond its seed
\* equals the composite score of the final bundle plus the savings bonus
\* min(0.15, mean pair savings / 20) of the last delivery added; this boosted value is
\* the one compared across seeds and ranked by the global acceptance.
C30_ScoreIsBoosted == ScoresCompared(IsCompositePlusBonus)

\* C30 as the code has it: the sum of composite score and bonus is rounded to three
\* decimals before it becomes the score of the grown suggestion.
C30_ScoreIsRoundedBoosted == ScoresCompared(IsRoundedCompositePlusBonus)

\* the best suggestion of a vehicle was grown beyond its seed, its bonus is below the cap
\* and is no whole number of thousandths, and another seed stayed a single delivery
C30_Witness ==
    /\ SeedsDone
    /\ bestSuggestion # <<>>
    /\ Len(bestSuggestion[1].orders) >= 2
    /\ LastSavingsSum(vehicle, bestSuggestion[1].orders, traffic) > 0
    /\ LastSavingsSum(vehicle, bestSuggestion[1].orders, traffic)
          < BONUS_CAP_1000 * (Len(bestSuggestion[1].orders) - 1) * BONUS_DIVISOR
    /\ ~ScoreAsClaimed(bestSuggestion[1], vehicle, traffic, IsCompositePlusBonus)
    /\ \E j \in 1..Len(grown) : Len(grown[j].orders) = 1

====
